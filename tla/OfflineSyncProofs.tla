------------------------- MODULE OfflineSyncProofs -------------------------
(* Theorems about OfflineSync, for all values of its constants: the types, *)
(* that a creation makes one item, and that what others gave and what the  *)
(* user was promised is kept.  The invariants are in OfflineSyncInvariants.*)
(* What a step leaves alone keeps its type by Frame; the fold with which   *)
(* _replaceCache applies the pending mutations is reasoned about by        *)
(* induction over a set of facts.                                          *)
EXTENDS OfflineSyncInvariants, SequenceTheorems, WellFoundedInduction, FiniteSetTheorems, TLAPS

----------------------------------------
(* Sequences.                                                              *)
LEMMA Indices ==
  ASSUME NEW S, NEW q \in Seq(S)
  PROVE  /\ Len(q) \in Nat /\ DOMAIN q = 1..Len(q)
         /\ \A k \in DOMAIN q : q[k] \in S
  BY LenProperties, ElementOfSeq

LEMMA Appended ==
  ASSUME NEW S, NEW q \in Seq(S), NEW e \in S
  PROVE  /\ Append(q, e) \in Seq(S)
         /\ DOMAIN Append(q, e) = DOMAIN q \cup {Len(q) + 1}
         /\ \A k \in DOMAIN q : Append(q, e)[k] = q[k]
         /\ Append(q, e)[Len(q) + 1] = e
         /\ Len(q) + 1 \notin DOMAIN q
         /\ Append(q, e) # <<>>
  <1>1. /\ Append(q, e) \in Seq(S) /\ Append(q, e) # <<>> /\ Len(Append(q, e)) = Len(q) + 1
        /\ \A i \in 1..Len(q) : Append(q, e)[i] = q[i]
        /\ Append(q, e)[Len(q) + 1] = e
    BY AppendProperties
  <1>2. Len(q) \in Nat /\ DOMAIN q = 1..Len(q) /\ DOMAIN Append(q, e) = 1..Len(Append(q, e))
    BY <1>1, Indices
  <1>3. 1..(Len(q) + 1) = 1..Len(q) \cup {Len(q) + 1}
    BY <1>2
  <1> QED
    BY <1>1, <1>2, <1>3

LEMMA Popped ==
  ASSUME NEW S, NEW q \in Seq(S), q # <<>>
  PROVE  /\ Head(q) = q[1] /\ 1 \in DOMAIN q /\ Head(q) \in S
         /\ Tail(q) \in Seq(S)
         /\ \A k \in DOMAIN Tail(q) : k + 1 \in DOMAIN q /\ Tail(q)[k] = q[k + 1]
  <1>1. /\ Head(q) \in S /\ Tail(q) \in Seq(S) /\ Len(Tail(q)) = Len(q) - 1
        /\ \A i \in 1..Len(Tail(q)) : Tail(q)[i] = q[i + 1]
    BY HeadTailProperties
  <1>2. Len(q) \in Nat \ {0} /\ DOMAIN q = 1..Len(q) /\ DOMAIN Tail(q) = 1..Len(Tail(q))
    BY <1>1, Indices, EmptySeq
  <1>3. Head(q) = q[1]
    OBVIOUS
  <1> QED
    BY <1>1, <1>2, <1>3

LEMMA Replaced ==
  ASSUME NEW S, NEW q \in Seq(S), NEW k \in DOMAIN q, NEW e \in S
  PROVE  /\ [q EXCEPT ![k] = e] \in Seq(S)
         /\ DOMAIN [q EXCEPT ![k] = e] = DOMAIN q
         /\ \A j \in DOMAIN q : [q EXCEPT ![k] = e][j] = IF j = k THEN e ELSE q[j]
         /\ [q EXCEPT ![k] = e] = <<>> <=> q = <<>>
  <1>1. DOMAIN q = 1..Len(q) /\ Len(q) \in Nat
    BY Indices
  <1>2. /\ [q EXCEPT ![k] = e] \in Seq(S) /\ Len([q EXCEPT ![k] = e]) = Len(q)
        /\ \A j \in 1..Len(q) : [q EXCEPT ![k] = e][j] = IF j = k THEN e ELSE q[j]
    BY <1>1, ExceptSeq
  <1>3. k \in 1..Len(q) /\ Len(q) # 0
    BY <1>1
  <1>4. q # <<>> /\ [q EXCEPT ![k] = e] # <<>>
    BY <1>2, <1>3, EmptySeq
  <1> QED
    BY <1>1, <1>2, <1>4

(* The least of a set of indices.                                          *)
LEMMA LeastIsMember ==
  ASSUME NEW S \in SUBSET Nat, S # {}
  PROVE  Min(S) \in S
  <1>1. PICK n \in S : \A m \in S : ~ (<<m, n>> \in OpToRel(<, Nat))
    BY NatLessThanWellFounded, WFMin
  <1>2. \A m \in S : ~ (m < n)
    BY <1>1 DEF OpToRel
  <1>3. \A m \in S : m \in Nat
    OBVIOUS
  <1>4. \A m \in S : n <= m
    BY <1>2, <1>3
  <1> QED
    BY <1>4 DEF Min

----------------------------------------
(* Rows, ids and tables.                                                   *)
LEMMA FirstIsVals == first \in AllVals
  <1>1. (CHOOSE v \in Values : TRUE) \in Values
    BY OfflineSyncAssumption
  <1> QED
    BY <1>1 DEF first, AllVals

LEMMA RowIs ==
  ASSUME NEW vals \in AllVals, NEW version \in Nat \ {0}
  PROVE  Row(vals, version) \in Rows /\ Row(vals, version).vals = vals /\ Row(vals, version).version = version
  BY DEF Row, Rows

LEMMA StatusSet ==
  ASSUME NEW vals \in AllVals, NEW s \in Values \cup {"active", "frozen", "used", "gone"}, NEW c
  PROVE  [vals EXCEPT ![c] = s] \in AllVals
  BY DEF AllVals

LEMMA RowSet ==
  ASSUME NEW row \in Rows, NEW s \in Values \cup {"active", "frozen", "used", "gone"}, NEW c
  PROVE  [row EXCEPT !.vals[c] = s] \in Rows
  <1>1. [row.vals EXCEPT ![c] = s] \in AllVals
    BY StatusSet DEF Rows
  <1> DEFINE vals == [row.vals EXCEPT ![c] = s]
  <1>2. [row EXCEPT !.vals[c] = s] = [row EXCEPT !.vals = vals]
    BY DEF Rows
  <1> HIDE DEF vals
  <1>3. [row EXCEPT !.vals = vals] \in Rows
    BY <1>1 DEF Rows, vals
  <1> QED
    BY <1>2, <1>3

LEMMA WithTable ==
  ASSUME NEW T, IsTable(T), NEW i, IsId(i), NEW row \in Rows
  PROVE  IsTable(With(T, i, row))
  BY DEF IsTable, With

LEMMA WithoutTable ==
  ASSUME NEW T, IsTable(T), NEW ids
  PROVE  IsTable(Without(T, ids))
  BY DEF IsTable, Without

LEMMA ExceptTable ==
  ASSUME NEW T, IsTable(T), NEW i \in DOMAIN T, NEW row \in Rows
  PROVE  IsTable([T EXCEPT ![i] = row])
  <1>1. DOMAIN [T EXCEPT ![i] = row] = DOMAIN T
    OBVIOUS
  <1>2. \A j \in DOMAIN T : [T EXCEPT ![i] = row][j] = IF j = i THEN row ELSE T[j]
    OBVIOUS
  <1> QED
    BY <1>1, <1>2 DEF IsTable

LEMMA EmptyTable == IsTable(<<>>)
  BY DEF IsTable

----------------------------------------
(* Items of the server, and what every step does to them.                  *)
(* The items the server may hold.                                          *)
Items == [thing : 0..ops, vals : AllVals, version : Nat \ {0}]

(* A step may add to the server and begin calls, and takes neither back.   *)
Grows ==
  /\ ServerOK' /\ ops <= ops'
  /\ DOMAIN server \subseteq DOMAIN server'

LEMMA OpsGrow ==
  ASSUME ServerOK, Grows
  PROVE  ops \in Nat /\ ops' \in Nat /\ ops <= ops' /\ ops' <= MaxOps /\ 0..ops \subseteq 0..(ops')
           /\ 1..ops \subseteq 1..(ops')
  <1>1. ops \in Nat /\ ops' \in Nat /\ ops <= ops' /\ ops' <= MaxOps
    BY OfflineSyncAssumption DEF ServerOK, Grows
  <1> QED
    BY <1>1

LEMMA Monotone ==
  ASSUME ServerOK, Grows
  PROVE  /\ \A i : IsId(i) => IsId(i)'
         /\ \A T : IsTable(T) => IsTable(T)'
         /\ \A ms : IsQueue(ms) => IsQueue(ms)'
  <1>1. \A i : IsId(i) => IsId(i)'
    BY OpsGrow DEF IsId, Grows
  <1>2. \A T : IsTable(T) => IsTable(T)'
    BY <1>1 DEF IsTable
  <1>3. ASSUME NEW ms, IsQueue(ms) PROVE IsQueue(ms)'
    <2>1. Mutations \subseteq Mutations'
      BY OpsGrow DEF Mutations
    <2>2. ms \in Seq(Mutations')
      BY <1>3, <2>1, SeqMonotonic DEF IsQueue
    <2> QED
      BY <1>1, <1>3, <2>2 DEF IsQueue
  <1> QED
    BY <1>1, <1>2, <1>3

(* What a step leaves alone keeps its type.                                *)
LEMMA Frame ==
  ASSUME TypeOK, Grows
  PROVE  /\ UNCHANGED answers => AnswersOK'
         /\ UNCHANGED local => IsTable(local)'
         /\ UNCHANGED queue => IsQueue(queue)'
         /\ UNCHANGED op => OpOK'
         /\ UNCHANGED fl /\ DOMAIN queue \subseteq DOMAIN queue' /\ (queue # <<>> => queue' # <<>>) => FlushOK'
         /\ UNCHANGED <<fl, queue>> => FlushOK'
         /\ UNCHANGED sy => SyncOK'
         /\ UNCHANGED undated => (undated \subseteq 1..ops)'
  <1>1. UNCHANGED answers => AnswersOK'
    BY DEF TypeOK, AnswersOK, Things, Grows
  <1>2. /\ UNCHANGED local => IsTable(local)'
        /\ UNCHANGED queue => IsQueue(queue)'
    BY Monotone DEF TypeOK
  <1>3. UNCHANGED op => OpOK'
    BY Monotone, OpsGrow DEF TypeOK, OpOK
  <1>4. UNCHANGED fl /\ DOMAIN queue \subseteq DOMAIN queue' /\ (queue # <<>> => queue' # <<>>) => FlushOK'
    BY DEF TypeOK, FlushOK, Grows
  <1>5. UNCHANGED sy => SyncOK'
    BY Monotone DEF TypeOK, SyncOK
  <1>6. UNCHANGED undated => (undated \subseteq 1..ops)'
    BY OpsGrow DEF TypeOK
  <1> QED
    BY <1>1, <1>2, <1>3, <1>4, <1>5, <1>6

(* An item is added.                                                       *)
LEMMA Unchanging ==
  ASSUME TypeOK, UNCHANGED <<server, ops>>
  PROVE  Grows /\ ItemsKept
  <1>1. ops \in Nat
    BY OfflineSyncAssumption DEF TypeOK, ServerOK
  <1> QED
    BY <1>1 DEF TypeOK, ServerOK, Grows, ItemsKept

LEMMA Adding ==
  ASSUME TypeOK, UNCHANGED ops, NEW item \in Items, server' = Append(server, item)
  PROVE  Grows /\ Len(server) + 1 \in DOMAIN server'
  <1>1. server \in Seq(Items) /\ ops \in Nat
    BY OfflineSyncAssumption DEF TypeOK, ServerOK, Items
  <1>2. /\ server' \in Seq(Items)
        /\ DOMAIN server' = DOMAIN server \cup {Len(server) + 1}
        /\ \A k \in DOMAIN server : server'[k] = server[k]
        /\ server'[Len(server) + 1] = item
        /\ Len(server) + 1 \notin DOMAIN server
    BY <1>1, Appended
  <1>3. server' \in Seq(Items')
    BY <1>2 DEF Items
  <1> QED
    BY <1>1, <1>2, <1>3 DEF TypeOK, ServerOK, Grows, Items

LEMMA Changing ==
  ASSUME TypeOK, UNCHANGED ops, NEW i \in DOMAIN server, NEW item \in Items,
         item.thing = server[i].thing, server' = [server EXCEPT ![i] = item]
  PROVE  Grows /\ ItemsKept
  <1>1. server \in Seq(Items) /\ ops \in Nat
    BY OfflineSyncAssumption DEF TypeOK, ServerOK, Items
  <1>2. /\ server' \in Seq(Items) /\ DOMAIN server' = DOMAIN server
        /\ \A k \in DOMAIN server : server'[k] = IF k = i THEN item ELSE server[k]
    BY <1>1, Replaced
  <1>3. server' \in Seq(Items')
    BY <1>2 DEF Items
  <1> QED
    BY <1>1, <1>2, <1>3 DEF TypeOK, ServerOK, Grows, ItemsKept, Items

(* The items that the server makes of a request.                           *)
LEMMA ServerItem ==
  ASSUME ServerOK, NEW i \in DOMAIN server
  PROVE  /\ server[i] \in Items /\ server[i].thing \in 0..ops
         /\ server[i].vals \in AllVals /\ server[i].version \in Nat \ {0}
         /\ i \in Nat \ {0}
  <1>1. server \in Seq(Items)
    BY DEF ServerOK, Items
  <1>2. server[i] \in Items /\ i \in Nat \ {0}
    BY <1>1, Indices
  <1> QED
    BY <1>2 DEF Items

LEMMA AppliedIs ==
  ASSUME ServerOK, NEW i \in DOMAIN server, NEW action, NEW vals \in AllVals
  PROVE  LET item == Applied(i, action, vals)
         IN  /\ item \in Items /\ item.thing = server[i].thing
             /\ item.vals \in AllVals /\ item.version \in Nat \ {0}
  <1> DEFINE set == IF action = "update" THEN Fields ELSE {"status"}
             vs == [c \in Columns |-> IF c \in set THEN vals[c] ELSE server[i].vals[c]]
             n == server[i].version + 1
             item == Applied(i, action, vals)
  <1>1. server[i] \in Items /\ server[i].vals \in AllVals /\ server[i].version \in Nat \ {0}
    BY ServerItem
  <1>2. vs \in AllVals /\ n \in Nat \ {0}
    BY <1>1 DEF AllVals
  <1>3. item = [[server[i] EXCEPT !.vals = vs] EXCEPT !.version = n]
    BY <1>1 DEF Applied, Items
  <1> HIDE DEF vs, n, item
  <1>4. item = [thing |-> server[i].thing, vals |-> vs, version |-> n]
    BY <1>1, <1>3 DEF Items
  <1>5. item \in Items /\ item.thing = server[i].thing /\ item.vals = vs /\ item.version = n
    BY <1>1, <1>2, <1>4 DEF Items
  <1> QED
    BY <1>2, <1>5 DEF item

LEMMA CreatedIs ==
  ASSUME NEW t \in 0..ops, NEW vals \in AllVals
  PROVE  LET item == Created(t, vals)
         IN  item \in Items /\ item.thing = t /\ item.vals \in AllVals
  <1>1. [vals EXCEPT !["status"] = "active"] \in AllVals
    BY DEF AllVals
  <1> QED
    BY <1>1 DEF Created, Items

LEMMA ThingIs ==
  ASSUME ServerOK, NEW i, IsId(i)
  PROVE  Thing(i) \in 0..ops /\ i \in Int /\ (i < 0 \/ i \in DOMAIN server)
  <1>1. CASE i \in DOMAIN server
    <2>1. server[i].thing \in 0..ops /\ i \in Nat \ {0}
      BY <1>1, ServerItem
    <2> QED
      BY <1>1, <2>1 DEF Thing
  <1>2. CASE i \in {offline_id(t) : t \in 1..ops}
    <2>1. PICK t \in 1..ops : i = - t
      BY <1>2 DEF offline_id
    <2>2. ops \in Nat
      BY OfflineSyncAssumption DEF ServerOK
    <2>3. i \in Int /\ i < 0 /\ - i = t
      BY <2>1, <2>2
    <2> QED
      BY <2>1, <2>2, <2>3 DEF Thing
  <1> QED
    BY <1>1, <1>2 DEF IsId

----------------------------------------
(* Types, call by call.                                                    *)
LEMMA TypesInit ==
  ASSUME Init PROVE TypeOK
  <1> DEFINE item == [thing |-> 0, vals |-> first, version |-> 1]
  <1>1. ServerOK
    <2>1. item \in Items /\ ops = 0 /\ MaxOps \in Nat
      BY FirstIsVals, OfflineSyncAssumption DEF Init, Items
    <2> HIDE DEF item
    <2>2. <<item>> \in Seq(Items)
      BY <2>1
    <2> QED
      BY <2>1, <2>2 DEF Init, ServerOK, Items, item
  <1>2. AnswersOK
    BY DEF Init, AnswersOK
  <1>3. IsTable(local)
    <2>1. DOMAIN server = {1} /\ DOMAIN local = {1} /\ local[1] = Row(first, 1)
      BY DEF Init
    <2>2. Row(first, 1) \in Rows
      BY FirstIsVals, RowIs
    <2> QED
      BY <2>1, <2>2 DEF IsTable, IsId
  <1>4. IsQueue(<<>>) /\ IsTable(<<>>)
    BY EmptySeq, EmptyTable DEF IsQueue
  <1>5. OpOK
    BY DEF Init, OpOK, NoOp
  <1>6. FlushOK
    BY DEF Init, FlushOK, NoFlush
  <1>7. SyncOK
    BY <1>4 DEF Init, SyncOK, NoSync
  <1> QED
    BY <1>1, <1>2, <1>3, <1>4, <1>5, <1>6, <1>7 DEF TypeOK, Init

LEMMA BeginGrows ==
  ASSUME TypeOK, NEW action, NEW i, NEW t, NEW row, NEW base, NEW dirty,
         Begin(action, i, t, row, base, dirty)
  PROVE  Grows /\ ItemsKept /\ ops' = ops + 1 /\ ops \in Nat /\ ops' \in Nat
  <1>1. ops \in Nat /\ ops' = ops + 1 /\ ops' \in 0..MaxOps /\ server' = server
    BY OfflineSyncAssumption DEF TypeOK, ServerOK, Begin
  <1>a. 0..ops \subseteq 0..(ops')
    BY <1>1
  <1>2. Items \subseteq Items'
    BY <1>a DEF Items
  <1>b. server \in Seq(Items)
    BY DEF TypeOK, ServerOK, Items
  <1>3. server' \in Seq(Items')
    BY <1>1, <1>2, <1>b, SeqMonotonic
  <1> QED
    BY <1>1, <1>3 DEF ServerOK, Grows, ItemsKept, Items

LEMMA BeginTypes ==
  ASSUME TypeOK, NEW action \in Actions, NEW i, NEW t, NEW row \in Rows, NEW base \in Rows \cup {Null},
         NEW dirty \in SUBSET Columns, Begin(action, i, t, row, base, dirty),
         IsId(i)', i \in Int, action = "create" => - i \in 1..(ops'),
         action = "status_update" => base \in Rows, IsTable(local)'
  PROVE  TypeOK'
  <1>1. Grows
    BY BeginGrows
  <1>2. UNCHANGED <<undated, server, answers, queue, fl, sy>>
    BY DEF Begin
  <1>3. op' = [at |-> "send", action |-> action, id |-> i, row |-> row, base |-> base, dirty |-> dirty]
    BY DEF Begin
  <1>4. OpOK'
    BY <1>3 DEF OpOK
  <1> QED
    BY <1>1, <1>2, <1>4, Frame DEF TypeOK, Grows

LEMMA CreateTypes ==
  ASSUME TypeOK, createInventoryItem PROVE TypeOK' /\ Grows
  <1>0. ops \in Nat
    BY OfflineSyncAssumption DEF TypeOK, ServerOK
  <1>1. PICK t \in Nat, i \in Int : t = ops + 1 /\ i = offline_id(t)
    BY <1>0 DEF offline_id
  <1>2. Begin("create", i, t, Row(first, 1), Null, Columns) /\ local' = local
    BY <1>1 DEF createInventoryItem
  <1>3. Grows /\ ops' = t
    BY <1>1, <1>2, BeginGrows
  <1>4. - i = t /\ t \in 1..t
    BY <1>0, <1>1 DEF offline_id
  <1>5. IsId(i)'
    BY <1>1, <1>3, <1>4 DEF IsId
  <1>6. IsTable(local)'
    BY <1>2, <1>3, Frame
  <1>7. Row(first, 1) \in Rows
    BY FirstIsVals, RowIs
  <1>8. Null \in Rows \cup {Null} /\ Columns \in SUBSET Columns
    OBVIOUS
  <1>9. "create" \in Actions /\ "create" # "status_update"
    BY DEF Actions
  <1>10. - i \in 1..(ops')
    BY <1>3, <1>4
  <1> QED
    BY <1>2, <1>3, <1>5, <1>6, <1>7, <1>8, <1>9, <1>10, BeginTypes

LEMMA UpdateTypes ==
  ASSUME TypeOK, updateItem PROVE TypeOK' /\ Grows
  <1>1. PICK i \in getAllItems, f \in Fields \cap Edits, v \in Values :
          Begin("update", i, Thing(i), [local[i] EXCEPT !.vals[f] = v], Null, {f})
    BY DEF updateItem
  <1>2. local' = local
    BY DEF updateItem
  <1>3. IsId(i) /\ local[i] \in Rows
    BY DEF getAllItems, TypeOK, IsTable
  <1> DEFINE row == [local[i] EXCEPT !.vals[f] = v]
  <1>4. row \in Rows
    BY <1>3, RowSet
  <1> HIDE DEF row
  <1>5. Grows
    BY <1>1, BeginGrows
  <1>6. IsId(i)' /\ i \in Int /\ IsTable(local)'
    BY <1>2, <1>3, <1>5, Monotone, ThingIs, Frame DEF TypeOK
  <1>7. {f} \in SUBSET Columns
    BY DEF Columns
  <1>8. Begin("update", i, Thing(i), row, Null, {f})
    BY <1>1 DEF row
  <1> QED
    BY <1>4, <1>5, <1>6, <1>7, <1>8, BeginTypes DEF Actions

LEMMA StatusTypes ==
  ASSUME TypeOK, updateItemStatus PROVE TypeOK' /\ Grows
  <1>1. PICK i \in getAllItems, s \in {"frozen", "used"} \cap Edits :
          /\ local' = [local EXCEPT ![i] = [local[i] EXCEPT !.vals["status"] = s]]
          /\ Begin("status_update", i, Thing(i), [local[i] EXCEPT !.vals["status"] = s], local[i], {"status"})
    BY DEF updateItemStatus
  <1> DEFINE row == [local[i] EXCEPT !.vals["status"] = s]
  <1>2. i \in DOMAIN local /\ IsId(i) /\ local[i] \in Rows
    BY DEF getAllItems, TypeOK, IsTable
  <1>3. row \in Rows
    BY <1>2, RowSet
  <1>a. /\ local' = [local EXCEPT ![i] = row]
        /\ Begin("status_update", i, Thing(i), row, local[i], {"status"})
    BY <1>1
  <1> HIDE DEF row
  <1>4. Grows
    BY <1>a, BeginGrows
  <1>5. IsTable(local')
    BY <1>2, <1>3, <1>a, ExceptTable DEF TypeOK
  <1>6. IsId(i)' /\ i \in Int /\ IsTable(local)'
    BY <1>2, <1>4, <1>5, Monotone, ThingIs DEF TypeOK, IsTable
  <1>7. {"status"} \in SUBSET Columns
    BY DEF Columns
  <1> QED
    BY <1>2, <1>3, <1>4, <1>6, <1>7, <1>a, BeginTypes DEF Actions

----------------------------------------
(* Types, step by step of a call.                                          *)
Stages == {"idle", "send", "cache", "revert", "keep", "queue"}

LEMMA NoOpTypes == TypeOK /\ op' = NoOp => OpOK'
  BY DEF OpOK, NoOp

LEMMA NextOpTypes ==
  ASSUME TypeOK, Grows, NEW at \in Stages, NextOp(at), op.at = "send",
         at \in {"revert", "queue"} => op.action = "status_update"
  PROVE  OpOK'
  <1>1. /\ op \in [at : Stages, action : Actions \cup {Null}, id : Int, row : Rows \cup {Null},
                   base : Rows \cup {Null}, dirty : SUBSET Columns]
        /\ op.action \in Actions /\ op.row \in Rows /\ IsId(op.id)
        /\ op.action = "create" => - op.id \in 1..ops
        /\ op.action = "status_update" => op.base \in Rows
    BY DEF TypeOK, OpOK, Stages
  <1>2. /\ op' \in [at : Stages, action : Actions \cup {Null}, id : Int, row : Rows \cup {Null},
                    base : Rows \cup {Null}, dirty : SUBSET Columns]
        /\ op'.at = at /\ op'.action = op.action /\ op'.row = op.row /\ op'.id = op.id /\ op'.base = op.base
    BY <1>1 DEF NextOp
  <1>3. IsId(op.id)' /\ (op.action = "create" => - op.id \in 1..(ops'))
    <2>1. \A i : IsId(i) => IsId(i)'
      BY Monotone DEF TypeOK
    <2>2. op'.id = op.id
      BY <1>2
    <2> QED
      BY <1>1, <2>1, <2>2, OpsGrow DEF TypeOK, IsId
  <1> QED
    BY <1>1, <1>2, <1>3 DEF OpOK, Stages

LEMMA SendCreateTypes ==
  ASSUME TypeOK, SendCreate PROVE TypeOK' /\ Grows
  <1>1. PICK t \in 1..ops : t = - op.id /\ t = offline_id(op.id)
    BY DEF SendCreate, TypeOK, OpOK, offline_id
  <1>2. op.row.vals \in AllVals /\ t \in 0..ops /\ ops \in Nat
    BY <1>1, OfflineSyncAssumption DEF SendCreate, TypeOK, OpOK, Rows, ServerOK
  <1>3. PICK item \in Items : item = Created(t, op.row.vals) /\ item.thing = t /\ item.vals \in AllVals
    BY <1>2, CreatedIs
  <1>4. /\ op.at = "send" /\ op.action = "create"
        /\ UNCHANGED <<undated, queue, online, fl, sy, ops, answers, local>>
    BY DEF SendCreate
  <1>5. \/ /\ server' = Append(server, item)
           /\ op' = [op EXCEPT !.at = "cache", !.id = Len(server) + 1, !.row = Row(item.vals, 1)]
        \/ server' = Append(server, item) /\ AfterNoAnswer
        \/ server' = server /\ AfterNoAnswer
    BY <1>1, <1>3 DEF SendCreate
  <1>6. server' = Append(server, item) => Grows /\ Len(server) + 1 \in DOMAIN server'
    BY <1>3, <1>4, Adding
  <1>7. Grows
    BY <1>4, <1>5, <1>6, Unchanging
  <1>8. OpOK'
    <2>1. CASE AfterNoAnswer
      <3>1. NextOp("keep")
        BY <1>4, <2>1 DEF AfterNoAnswer
      <3> QED
        BY <1>4, <1>7, <3>1, NextOpTypes DEF Stages
    <2>2. CASE /\ server' = Append(server, item)
               /\ op' = [op EXCEPT !.at = "cache", !.id = Len(server) + 1, !.row = Row(item.vals, 1)]
      <3>1. Len(server) \in Nat
        BY DEF TypeOK, ServerOK
      <3>2. PICK n \in Nat : n = Len(server) + 1 /\ n \in DOMAIN server'
        BY <1>6, <2>2, <3>1
      <3>3. PICK row \in Rows : row = Row(item.vals, 1)
        BY <1>3, RowIs
      <3>4. op' = [op EXCEPT !.at = "cache", !.id = n, !.row = row]
        BY <2>2, <3>2, <3>3
      <3>5. /\ op'.at = "cache" /\ op'.action = "create" /\ op'.id = n /\ op'.row = row
            /\ op' \in [at : Stages, action : Actions \cup {Null}, id : Int, row : Rows \cup {Null},
                        base : Rows \cup {Null}, dirty : SUBSET Columns]
        <4>1. op \in [at : Stages, action : Actions \cup {Null}, id : Int, row : Rows \cup {Null},
                      base : Rows \cup {Null}, dirty : SUBSET Columns]
          BY DEF TypeOK, OpOK, Stages
        <4>2. n \in Int /\ row \in Rows /\ "cache" \in Stages
          BY <3>2, <3>3 DEF Stages
        <4>3. op' = [at |-> "cache", action |-> op.action, id |-> n, row |-> row, base |-> op.base, dirty |-> op.dirty]
          BY <3>4, <4>1
        <4> QED
          BY <1>4, <4>1, <4>2, <4>3
      <3>6. IsId(op.id)'
        BY <3>2, <3>5 DEF IsId
      <3>7. op'.action \in Actions /\ op'.action # "status_update"
        BY <3>5 DEF Actions
      <3> QED
        BY <3>3, <3>5, <3>6, <3>7 DEF OpOK, Stages
    <2> QED
      BY <1>5, <2>1, <2>2
  <1> QED
    BY <1>4, <1>7, <1>8, Frame DEF TypeOK, Grows

(* A refused or an accepted request.                                       *)
LEMMA CodeIs ==
  ASSUME ServerOK, NEW i, IsId(i), NEW version, Code(i, version) = "200"
  PROVE  i \in DOMAIN server /\ ~ (i < 0)
  <1>1. ~ (i < 0)
    BY DEF Code
  <1> QED
    BY <1>1, ThingIs

LEMMA SendChangeTypes ==
  ASSUME TypeOK, SendChange PROVE TypeOK' /\ Grows /\ ItemsKept
  <1> DEFINE code == Code(op.id, op.row.version)
             item == Applied(op.id, op.action, op.row.vals)
  <1>1. /\ op.at = "send" /\ op.action # "create"
        /\ UNCHANGED <<undated, answers, local, queue, online, fl, sy, ops>>
    BY DEF SendChange
  <1>2. /\ op.row \in Rows /\ IsId(op.id) /\ op.action \in Actions /\ op.row.vals \in AllVals
        /\ op.action = "status_update" => op.base \in Rows
    BY <1>1 DEF TypeOK, OpOK, Rows
  <1>3. server' = server \/ (code = "200" /\ server' = [server EXCEPT ![op.id] = item])
    BY DEF SendChange
  <1>4. code = "200" => /\ op.id \in DOMAIN server /\ item \in Items /\ item.thing = server[op.id].thing
                        /\ item.vals \in AllVals /\ item.version \in Nat \ {0}
    BY <1>2, CodeIs, AppliedIs DEF TypeOK
  <1>5. Grows /\ ItemsKept
    <2>1. CASE server' = server
      BY <1>1, <2>1, Unchanging
    <2>2. CASE code = "200" /\ server' = [server EXCEPT ![op.id] = item]
      <3> HIDE DEF code, item
      <3> QED
        BY <1>1, <1>4, <2>2, Changing
    <2> QED
      BY <1>3, <2>1, <2>2
  <1>6. \/ code = "200" /\ op' = [op EXCEPT !.at = "cache", !.row = Row(item.vals, item.version)]
        \/ op' = NoOp
        \/ op.action = "status_update" /\ (NextOp("revert") \/ NextOp("queue"))
        \/ NextOp("keep")
    BY DEF SendChange, AfterNoAnswer
  <1>7. OpOK'
    <2>1. CASE code = "200" /\ op' = [op EXCEPT !.at = "cache", !.row = Row(item.vals, item.version)]
      <3>1. PICK row \in Rows : row = Row(item.vals, item.version)
        BY <1>4, <2>1, RowIs
      <3>2. op' = [op EXCEPT !.at = "cache", !.row = row]
        BY <2>1, <3>1
      <3> HIDE DEF code, item
      <3>3. /\ op'.at = "cache" /\ op'.action = op.action /\ op'.id = op.id /\ op'.base = op.base /\ op'.row = row
            /\ op' \in [at : Stages, action : Actions \cup {Null}, id : Int, row : Rows \cup {Null},
                        base : Rows \cup {Null}, dirty : SUBSET Columns]
        BY <3>1, <3>2 DEF TypeOK, OpOK, Stages
      <3>4. IsId(op.id)'
        BY <1>2, <1>5, <3>3, Monotone DEF TypeOK, IsId
      <3> QED
        BY <1>2, <3>1, <3>3, <3>4 DEF OpOK, Stages
    <2>2. CASE op' = NoOp
      BY <2>2, NoOpTypes
    <2>3. CASE NextOp("keep") \/ (op.action = "status_update" /\ (NextOp("revert") \/ NextOp("queue")))
      BY <1>1, <1>5, <2>3, NextOpTypes DEF Stages
    <2> QED
      BY <1>6, <2>1, <2>2, <2>3
  <1> QED
    BY <1>1, <1>5, <1>7, Frame DEF TypeOK, Grows

LEMMA CacheTypes ==
  ASSUME TypeOK, _cacheItems PROVE TypeOK' /\ Grows
  <1>1. /\ local' = With(local, op.id, op.row) /\ op' = NoOp /\ op.at = "cache"
        /\ UNCHANGED <<undated, server, answers, queue, fl, sy, ops>>
    BY DEF _cacheItems
  <1>2. Grows
    BY <1>1, Unchanging
  <1>3. IsTable(With(local, op.id, op.row))
    BY <1>1, WithTable DEF TypeOK, OpOK
  <1>4. IsTable(local)'
    BY <1>1, <1>2, <1>3, Monotone DEF TypeOK
  <1> QED
    BY <1>1, <1>2, <1>4, NoOpTypes, Frame DEF TypeOK, Grows

LEMMA RevertTypes ==
  ASSUME TypeOK, RevertStatus PROVE TypeOK' /\ Grows
  <1>1. /\ op' = NoOp /\ op.at = "revert"
        /\ UNCHANGED <<undated, server, answers, queue, fl, sy, ops>>
        /\ local' = IF op.id \in DOMAIN local
              THEN [local EXCEPT ![op.id].vals["status"] = op.base.vals["status"]] ELSE local
    BY DEF RevertStatus
  <1>2. Grows
    BY <1>1, Unchanging
  <1>3. IsTable(local')
    <2>1. CASE op.id \in DOMAIN local
      <3>1. local[op.id] \in Rows
        BY <2>1 DEF TypeOK, IsTable
      <3> DEFINE s == op.base.vals["status"]
                 row == [local[op.id] EXCEPT !.vals["status"] = s]
      <3>2. op.base.vals \in AllVals
        BY <1>1 DEF TypeOK, OpOK, Rows
      <3>3. s \in Values \cup {"active", "frozen", "used", "gone"}
        BY <3>2 DEF AllVals, Columns
      <3>4. local' = [local EXCEPT ![op.id] = row]
        BY <1>1, <2>1
      <3> HIDE DEF s
      <3>5. row \in Rows
        BY <3>1, <3>3, RowSet
      <3> HIDE DEF row
      <3> QED
        BY <2>1, <3>4, <3>5, ExceptTable DEF TypeOK
    <2>2. CASE op.id \notin DOMAIN local
      BY <1>1, <2>2 DEF TypeOK
    <2> QED
      BY <2>1, <2>2
  <1>4. IsTable(local)'
    BY <1>2, <1>3, Monotone DEF TypeOK
  <1> QED
    BY <1>1, <1>2, <1>4, NoOpTypes, Frame DEF TypeOK, Grows

LEMMA KeepTypes ==
  ASSUME TypeOK, KeepLocally PROVE TypeOK' /\ Grows
  <1>1. op.at = "keep" /\ UNCHANGED <<server, answers, queue, fl, sy, ops>>
    BY DEF KeepLocally
  <1>2. Grows
    BY <1>1, Unchanging
  <1>3. /\ op.action \in Actions /\ op.row \in Rows /\ IsId(op.id)
        /\ op.action = "create" => - op.id \in 1..ops
    BY <1>1 DEF TypeOK, OpOK
  <1>4. OpOK' /\ IsTable(local)'
    <2>1. CASE op.action = "update" /\ op.id \notin getAllItems
      <3>1. op' = NoOp /\ local' = local
        BY <2>1 DEF KeepLocally
      <3> QED
        BY <1>2, <3>1, NoOpTypes, Frame
    <2>2. CASE ~ (op.action = "update" /\ op.id \notin getAllItems)
      <3> DEFINE theBase == IF op.action = "update" THEN local[op.id] ELSE op.row
                 theRow == [op.row EXCEPT !.vals["status"] = theBase.vals["status"]]
                 theDirty == IF op.action = "update" THEN Changed(theBase.vals, theRow.vals) ELSE op.dirty
      <3>1. /\ op' = [op EXCEPT !.at = "queue", !.row = theRow, !.base = theBase, !.dirty = theDirty]
            /\ local' = With(local, op.id, theRow)
        BY <2>2 DEF KeepLocally
      <3>2. theBase \in Rows
        BY <1>3, <2>2 DEF TypeOK, IsTable, getAllItems
      <3>3. theRow \in Rows
        <4> DEFINE s == theBase.vals["status"]
        <4>1. s \in Values \cup {"active", "frozen", "used", "gone"}
          BY <3>2 DEF Rows, AllVals, Columns
        <4>2. theRow = [op.row EXCEPT !.vals["status"] = s]
          OBVIOUS
        <4> HIDE DEF s, theBase
        <4> QED
          BY <1>3, <4>1, <4>2, RowSet
      <3>4. theDirty \in SUBSET Columns
        BY <1>1 DEF TypeOK, OpOK, Changed
      <3> HIDE DEF theBase, theRow, theDirty
      <3>5. IsTable(local)'
        <4>1. IsTable(With(local, op.id, theRow))
          BY <1>3, <3>3, WithTable DEF TypeOK
        <4> QED
          BY <1>2, <3>1, <4>1, Monotone DEF TypeOK
      <3>6. /\ op' = [at |-> "queue", action |-> op.action, id |-> op.id, row |-> theRow,
                      base |-> theBase, dirty |-> theDirty]
            /\ op.id \in Int
        BY <3>1 DEF TypeOK, OpOK
      <3>7. IsId(op.id)' /\ (op.action = "create" => - op.id \in 1..(ops'))
        BY <1>1, <1>2, <1>3, <3>6, Monotone DEF TypeOK, IsId
      <3> QED
        BY <1>3, <3>2, <3>3, <3>4, <3>5, <3>6, <3>7 DEF OpOK
    <2> QED
      BY <2>1, <2>2
  <1>5. (undated \subseteq 1..ops)'
    <2>1. op.id \in Int /\ ops \in Nat
      BY OfflineSyncAssumption DEF TypeOK, ServerOK, OpOK
    <2>2. op.action = "create" => Thing(op.id) \in 1..ops
      BY <1>3, <2>1 DEF Thing
    <2> QED
      BY <1>1, <2>2 DEF KeepLocally, TypeOK
  <1> QED
    BY <1>1, <1>2, <1>4, <1>5, Frame DEF TypeOK, Grows

LEMMA EnqueueTypes ==
  ASSUME TypeOK, _enqueue PROVE TypeOK' /\ Grows
  <1>1. op.at = "queue" /\ op' = NoOp /\ UNCHANGED <<undated, server, answers, local, fl, sy, ops>>
    BY DEF _enqueue
  <1>2. Grows
    BY <1>1, Unchanging
  <1>3. /\ op.action \in Actions /\ op.row \in Rows /\ IsId(op.id) /\ op.base \in Rows
        /\ op.dirty \in SUBSET Columns
    BY <1>1 DEF TypeOK, OpOK
  <1> DEFINE m == [action |-> op.action, id |-> op.id, key |-> Thing(op.id), vals |-> op.row.vals,
            base |-> op.base.vals, dirty |-> IF op.action = "create" THEN {} ELSE op.dirty,
            version |-> op.row.version]
  <1>4. queue' = Append(queue, m)
    BY DEF _enqueue
  <1>5. m \in Mutations
    <2>1. Thing(op.id) \in 0..ops /\ op.id \in Int
      BY <1>3, ThingIs DEF TypeOK
    <2> QED
      BY <1>3, <2>1 DEF Mutations, Rows
  <1>6. m.id = op.id
    OBVIOUS
  <1> HIDE DEF m
  <1>7. /\ queue' \in Seq(Mutations) /\ DOMAIN queue' = DOMAIN queue \cup {Len(queue) + 1}
        /\ \A k \in DOMAIN queue : queue'[k] = queue[k]
        /\ queue'[Len(queue) + 1] = m
        /\ queue' # <<>>
    BY <1>4, <1>5, Appended DEF TypeOK, IsQueue
  <1>8. IsQueue(queue')
    BY <1>3, <1>6, <1>7 DEF TypeOK, IsQueue
  <1>9. IsQueue(queue)'
    BY <1>2, <1>8, Monotone DEF TypeOK
  <1> QED
    BY <1>1, <1>2, <1>7, <1>9, NoOpTypes, Frame DEF TypeOK, Grows

----------------------------------------
(* Types, step by step of the flush.                                       *)
FlushStages == {"off", "send", "retarget", "drop", "fetch", "resend", "rebase", "put", "pop"}

LEMMA SendNext ==
  ASSUME fl' = NoFlush \/ fl' = [NoFlush EXCEPT !.at = "send"]
  PROVE  FlushOK'
  BY DEF FlushOK, NoFlush

LEMMA NextFlushTypes ==
  ASSUME TypeOK, Grows, NEW at \in FlushStages, NextFlush(at), UNCHANGED queue,
         queue # <<>>, fl.at # "off", at \in {"put", "pop", "fetch"}, at = "put" => fl.at = "drop"
  PROVE  FlushOK'
  <1>1. /\ fl' \in [at : FlushStages, from : Int, got : Int, row : Rows \cup {Null}, todo : SUBSET Nat]
        /\ fl'.at = at /\ fl'.row = fl.row /\ fl'.got = fl.got /\ fl'.todo = fl.todo
    BY DEF NextFlush, TypeOK, FlushOK, FlushStages
  <1> QED
    BY <1>1 DEF TypeOK, FlushOK, FlushStages, Grows

(* The mutation at the head of the queue, and those of the same item.      *)
LEMMA HeadIs ==
  ASSUME IsQueue(queue), queue # <<>>
  PROVE  LET m == Head(queue)
         IN  /\ m = queue[1] /\ 1 \in DOMAIN queue /\ m \in Mutations /\ IsId(m.id)
             /\ m.vals \in AllVals /\ m.base \in AllVals /\ m.key \in 0..ops /\ m.version \in Nat \ {0}
             /\ m.action \in Actions /\ m.id \in Int /\ DOMAIN queue \subseteq Nat
  <1>1. queue \in Seq(Mutations) /\ \A k \in DOMAIN queue : IsId(queue[k].id)
    BY DEF IsQueue
  <1>2. Head(queue) = queue[1] /\ 1 \in DOMAIN queue /\ Head(queue) \in Mutations
    BY <1>1, Popped
  <1>3. DOMAIN queue \subseteq Nat
    BY <1>1, Indices
  <1> QED
    BY <1>1, <1>2, <1>3 DEF Mutations

LEMMA FlushBeginTypes ==
  ASSUME TypeOK, flushPendingMutations \/ FlushedAll PROVE TypeOK' /\ Grows
  <1>1. /\ UNCHANGED <<undated, server, answers, local, queue, op, sy, ops>>
        /\ fl' = NoFlush \/ fl' = [NoFlush EXCEPT !.at = "send"]
    BY DEF flushPendingMutations, FlushedAll, FlushEnds
  <1>2. Grows
    BY <1>1, Unchanging
  <1> QED
    BY <1>1, <1>2, SendNext, Frame DEF TypeOK, Grows

LEMMA FlushCreateTypes ==
  ASSUME TypeOK, FlushCreate PROVE TypeOK' /\ Grows
  <1> DEFINE m == Head(queue)
             known == Known(m.key)
             id == IF known THEN answers[m.key].id ELSE Len(server) + 1
             row == IF known THEN answers[m.key].row ELSE Row(Created(m.key, m.vals).vals, 1)
             todo == {k \in DOMAIN queue : queue[k].id = m.id}
             carried == /\ server' = IF known THEN server ELSE Append(server, Created(m.key, m.vals))
                        /\ answers' = With(answers, m.key, [id |-> id, row |-> row])
  <1>1. /\ queue # <<>> /\ fl.at = "send"
        /\ UNCHANGED <<undated, local, queue, online, op, sy, ops>>
    BY DEF FlushCreate
  <1>2. \/ carried /\ fl' = [at |-> "retarget", from |-> m.id, got |-> id, row |-> row, todo |-> todo]
        \/ carried /\ FlushEnds
        \/ FlushEnds /\ UNCHANGED <<server, answers>>
    BY DEF FlushCreate
  <1>3. /\ m = queue[1] /\ 1 \in DOMAIN queue /\ m \in Mutations /\ IsId(m.id)
        /\ m.vals \in AllVals /\ m.key \in 0..ops /\ m.id \in Int /\ DOMAIN queue \subseteq Nat
    BY <1>1, HeadIs DEF TypeOK
  <1>4. PICK item \in Items : item = Created(m.key, m.vals) /\ item.vals \in AllVals
    BY <1>3, CreatedIs
  <1>5. carried => /\ Grows
                   /\ id \in DOMAIN server' /\ row \in Rows /\ id \in Int
    <2> SUFFICES ASSUME carried
                 PROVE  Grows /\ id \in DOMAIN server' /\ row \in Rows /\ id \in Int
      OBVIOUS
    <2>1. CASE known
      <3>1. server' = server /\ id = answers[m.key].id /\ row = answers[m.key].row
        BY <2>1
      <3>2. id \in DOMAIN server /\ row \in Rows
        BY <2>1, <3>1 DEF TypeOK, AnswersOK, Known
      <3>3. Grows
        BY <1>1, <3>1, Unchanging
      <3> HIDE DEF id, row
      <3> QED
        BY <3>1, <3>2, <3>3, ServerItem DEF TypeOK
    <2>2. CASE ~ known
      <3>1. server' = Append(server, item) /\ id = Len(server) + 1 /\ row = Row(item.vals, 1)
        BY <1>4, <2>2
      <3>2. Grows /\ Len(server) + 1 \in DOMAIN server'
        BY <1>1, <1>4, <3>1, Adding
      <3>3. Row(item.vals, 1) \in Rows /\ Len(server) \in Nat
        BY <1>4, RowIs DEF TypeOK, ServerOK
      <3> HIDE DEF id, row
      <3> QED
        BY <3>1, <3>2, <3>3
    <2> QED
      BY <2>1, <2>2
  <1>6. Grows
    BY <1>1, <1>2, <1>5, Unchanging
  <1>7. AnswersOK'
    <2>1. CASE carried
      <3>1. m.key \in Things
        BY <1>3, OfflineSyncAssumption DEF TypeOK, ServerOK, Things
      <3>2. DOMAIN answers' = DOMAIN answers \cup {m.key}
        BY <2>1 DEF With
      <3>3. \A t \in DOMAIN answers' : answers'[t] = IF t = m.key THEN [id |-> id, row |-> row] ELSE answers[t]
        BY <2>1, <3>2 DEF With
      <3> HIDE DEF id, row, m
      <3>4. \A t \in DOMAIN answers' : answers'[t].id \in DOMAIN server' /\ answers'[t].row \in Rows
        BY <1>5, <2>1, <1>6, <3>2, <3>3 DEF TypeOK, AnswersOK, Grows
      <3> QED
        BY <3>1, <3>2, <3>4 DEF TypeOK, AnswersOK, Things
    <2>2. CASE UNCHANGED answers
      BY <1>6, <2>2, Frame
    <2> QED
      BY <1>2, <2>1, <2>2
  <1>8. FlushOK'
    <2>1. CASE FlushEnds
      BY <2>1, SendNext DEF FlushEnds
    <2>2. CASE carried /\ fl' = [at |-> "retarget", from |-> m.id, got |-> id, row |-> row, todo |-> todo]
      <3>1. todo # {} /\ todo \in SUBSET Nat /\ todo \subseteq DOMAIN queue'
        BY <1>1, <1>3
      <3>2. id \in DOMAIN server' /\ row \in Rows /\ id \in Int
        BY <1>5, <2>2
      <3> HIDE DEF id, row, m, todo
      <3> QED
        BY <1>1, <1>3, <2>2, <3>1, <3>2 DEF FlushOK
    <2> QED
      BY <1>2, <2>1, <2>2
  <1> QED
    BY <1>1, <1>6, <1>7, <1>8, Frame DEF TypeOK, Grows

LEMMA AsideTypes ==
  ASSUME TypeOK, AnswerNotStored \/ RefuseCreate PROVE TypeOK' /\ Grows
  <1> DEFINE m == Head(queue)
  <1>1. queue # <<>> /\ fl.at = "send" /\ UNCHANGED <<undated, answers, local, queue, op, sy, ops>>
    BY DEF AnswerNotStored, RefuseCreate
  <1>2. CASE AnswerNotStored
    <2>1. PICK item \in Items : item = Created(m.key, m.vals)
      BY <1>1, HeadIs, CreatedIs DEF TypeOK
    <2>2. server' = Append(server, item) /\ fl' = NoFlush
      BY <1>2, <2>1 DEF AnswerNotStored, FlushEnds
    <2> QED
      BY <1>1, <2>2, Adding, SendNext, Frame DEF TypeOK, Grows
  <1>3. CASE RefuseCreate
    <2>1. server' = server /\ (fl' = NoFlush \/ NextFlush("pop"))
      BY <1>3 DEF RefuseCreate, FlushEnds, DropRefused
    <2>2. Grows
      BY <1>1, <2>1, Unchanging
    <2>3. FlushOK'
      BY <1>1, <2>1, <2>2, SendNext, NextFlushTypes DEF FlushStages
    <2> QED
      BY <1>1, <2>2, <2>3, Frame DEF TypeOK, Grows
  <1> QED
    BY <1>2, <1>3

(* A row of the queue under the version of an answer, or under its id.     *)
LEMMA RetargetTypes ==
  ASSUME TypeOK, _retargetPendingMutations PROVE TypeOK' /\ Grows
  <1>1. /\ fl.at = "retarget" /\ UNCHANGED <<undated, server, answers, local, online, op, sy, ops>>
    BY DEF _retargetPendingMutations
  <1>2. Grows
    BY <1>1, Unchanging
  <1>3. /\ fl.todo # {} /\ fl.todo \in SUBSET Nat /\ fl.todo \subseteq DOMAIN queue
        /\ fl.row \in Rows /\ fl.got \in DOMAIN server /\ queue # <<>> /\ fl.got \in Int
    BY <1>1 DEF TypeOK, FlushOK
  <1>4. PICK k \in fl.todo : k = Min(fl.todo)
    BY <1>3, LeastIsMember
  <1>5. queue \in Seq(Mutations) /\ k \in DOMAIN queue /\ queue[k] \in Mutations
    BY <1>3, Indices DEF TypeOK, IsQueue
  <1> DEFINE version == IF queue[k].action = "create" THEN queue[k].version ELSE fl.row.version
             m == [queue[k] EXCEPT !.id = fl.got, !.version = version]
  <1>6. /\ queue' = [queue EXCEPT ![k] = m]
        /\ fl' = [fl EXCEPT !.todo = @ \ {k}, !.at = IF fl.todo = {k} THEN "drop" ELSE @]
    BY <1>4, <1>5 DEF _retargetPendingMutations, Mutations
  <1>7. m \in Mutations /\ m.id = fl.got
    <2>1. version \in Nat \ {0}
      BY <1>3, <1>5 DEF Rows, Mutations
    <2> HIDE DEF version
    <2> QED
      BY <1>3, <1>5, <2>1 DEF Mutations
  <1> HIDE DEF version, m
  <1>8. /\ queue' \in Seq(Mutations) /\ DOMAIN queue' = DOMAIN queue /\ queue' # <<>>
        /\ \A j \in DOMAIN queue : queue'[j] = IF j = k THEN m ELSE queue[j]
    BY <1>3, <1>5, <1>6, <1>7, Replaced
  <1>9. IsId(m.id)
    BY <1>3, <1>7 DEF IsId
  <1>10. IsQueue(queue')
    BY <1>8, <1>9 DEF TypeOK, IsQueue
  <1>11. IsQueue(queue)'
    BY <1>2, <1>10, Monotone DEF TypeOK
  <1>12. FlushOK'
    <2> DEFINE at == IF fl.todo = {k} THEN "drop" ELSE "retarget"
    <2>1. fl' = [at |-> at, from |-> fl.from, got |-> fl.got, row |-> fl.row, todo |-> fl.todo \ {k}]
      BY <1>1, <1>6 DEF TypeOK, FlushOK
    <2>2. fl.from \in Int /\ at \in {"drop", "retarget"} /\ (at = "retarget" => fl.todo \ {k} # {})
      BY <1>4 DEF TypeOK, FlushOK
    <2> HIDE DEF at
    <2> QED
      BY <1>1, <1>3, <1>8, <2>1, <2>2 DEF FlushOK
  <1> QED
    BY <1>1, <1>2, <1>11, <1>12, Frame DEF TypeOK, Grows

LEMMA RebaseTypes ==
  ASSUME TypeOK, _rebasePendingMutations PROVE TypeOK' /\ Grows
  <1>1. /\ fl.at = "rebase" /\ UNCHANGED <<undated, server, answers, local, online, op, sy, ops>>
    BY DEF _rebasePendingMutations
  <1>2. Grows
    BY <1>1, Unchanging
  <1>3. /\ fl.todo # {} /\ fl.todo \in SUBSET Nat /\ fl.todo \subseteq DOMAIN queue
        /\ fl.row \in Rows /\ fl.got \in DOMAIN server /\ queue # <<>> /\ fl.got \in Int
    BY <1>1 DEF TypeOK, FlushOK
  <1>4. PICK k \in fl.todo : k = Min(fl.todo)
    BY <1>3, LeastIsMember
  <1>5. queue \in Seq(Mutations) /\ k \in DOMAIN queue /\ queue[k] \in Mutations
    BY <1>3, Indices DEF TypeOK, IsQueue
  <1> DEFINE m == [queue[k] EXCEPT !.version = fl.row.version]
  <1>6. /\ queue' = [queue EXCEPT ![k] = m]
        /\ fl' = [fl EXCEPT !.todo = @ \ {k}, !.at = IF fl.todo = {k} THEN "put" ELSE @]
    BY <1>4, <1>5 DEF _rebasePendingMutations
  <1>7. m \in Mutations /\ m.id = queue[k].id
    BY <1>3, <1>5 DEF Mutations, Rows
  <1> HIDE DEF m
  <1>8. /\ queue' \in Seq(Mutations) /\ DOMAIN queue' = DOMAIN queue /\ queue' # <<>>
        /\ \A j \in DOMAIN queue : queue'[j] = IF j = k THEN m ELSE queue[j]
    BY <1>3, <1>5, <1>6, <1>7, Replaced
  <1>10. IsQueue(queue')
    BY <1>5, <1>7, <1>8 DEF TypeOK, IsQueue
  <1>11. IsQueue(queue)'
    BY <1>2, <1>10, Monotone DEF TypeOK
  <1>12. FlushOK'
    <2> DEFINE at == IF fl.todo = {k} THEN "put" ELSE "rebase"
    <2>1. fl' = [at |-> at, from |-> fl.from, got |-> fl.got, row |-> fl.row, todo |-> fl.todo \ {k}]
      BY <1>1, <1>6 DEF TypeOK, FlushOK
    <2>2. fl.from \in Int /\ at \in {"put", "rebase"} /\ (at = "rebase" => fl.todo \ {k} # {})
      BY <1>4 DEF TypeOK, FlushOK
    <2> HIDE DEF at
    <2> QED
      BY <1>1, <1>3, <1>8, <2>1, <2>2 DEF FlushOK
  <1> QED
    BY <1>1, <1>2, <1>11, <1>12, Frame DEF TypeOK, Grows

LEMMA DropLocalTypes ==
  ASSUME TypeOK, DropLocal PROVE TypeOK' /\ Grows
  <1>1. /\ fl.at = "drop" /\ UNCHANGED <<undated, server, answers, queue, op, sy, ops>>
        /\ local' = Without(local, {fl.from}) /\ NextFlush("put")
    BY DEF DropLocal
  <1>2. Grows
    BY <1>1, Unchanging
  <1>3. IsTable(local')
    BY <1>1, WithoutTable DEF TypeOK
  <1>4. IsTable(local)'
    BY <1>2, <1>3, Monotone DEF TypeOK
  <1>5. queue # <<>>
    BY <1>1 DEF TypeOK, FlushOK
  <1>6. FlushOK'
    BY <1>1, <1>2, <1>5, NextFlushTypes DEF FlushStages
  <1> QED
    BY <1>1, <1>2, <1>4, <1>6, Frame DEF TypeOK, Grows

LEMMA PutSyncedTypes ==
  ASSUME TypeOK, PutSynced PROVE TypeOK' /\ Grows
  <1>1. /\ fl.at = "put" /\ UNCHANGED <<undated, server, answers, queue, op, sy, ops>>
        /\ local' = With(local, fl.got, fl.row) /\ NextFlush("pop")
    BY DEF PutSynced
  <1>2. Grows
    BY <1>1, Unchanging
  <1>3. IsTable(local')
    BY <1>1, WithTable DEF TypeOK, FlushOK, IsId
  <1>4. IsTable(local)'
    BY <1>2, <1>3, Monotone DEF TypeOK
  <1>5. queue # <<>>
    BY <1>1 DEF TypeOK, FlushOK
  <1>6. FlushOK'
    BY <1>1, <1>2, <1>5, NextFlushTypes DEF FlushStages
  <1> QED
    BY <1>1, <1>2, <1>4, <1>6, Frame DEF TypeOK, Grows

LEMMA DeleteTypes ==
  ASSUME TypeOK, _deleteMutation PROVE TypeOK' /\ Grows
  <1>1. /\ fl.at = "pop" /\ UNCHANGED <<undated, server, answers, local, op, sy, ops>>
        /\ queue' = Tail(queue) /\ fl' = [NoFlush EXCEPT !.at = "send"]
    BY DEF _deleteMutation
  <1>2. Grows
    BY <1>1, Unchanging
  <1>3. queue # <<>>
    BY <1>1 DEF TypeOK, FlushOK
  <1>4. /\ queue' \in Seq(Mutations)
        /\ \A k \in DOMAIN queue' : k + 1 \in DOMAIN queue /\ queue'[k] = queue[k + 1]
    BY <1>1, <1>3, Popped DEF TypeOK, IsQueue
  <1>5. IsQueue(queue')
    BY <1>4 DEF TypeOK, IsQueue
  <1>6. IsQueue(queue)'
    BY <1>2, <1>5, Monotone DEF TypeOK
  <1> QED
    BY <1>1, <1>2, <1>6, SendNext, Frame DEF TypeOK, Grows

LEMMA ResolveIs ==
  ASSUME NEW theirItem \in AllVals, NEW myItem \in AllVals, NEW base, NEW dirty
  PROVE  resolve(theirItem, myItem, base, dirty) \in AllVals
  BY DEF resolve, AllVals

LEMMA ApplyTypes ==
  ASSUME TypeOK, _applyWithConflictResolution PROVE TypeOK' /\ Grows /\ ItemsKept
  <1> DEFINE m == Head(queue)
             again == fl.at = "resend"
             vals == IF again THEN resolve(fl.row.vals, m.vals, m.base, m.dirty) ELSE m.vals
             code == Code(m.id, IF again THEN fl.row.version ELSE m.version)
             item == Applied(m.id, m.action, vals)
             row == Row(item.vals, item.version)
             todo == {k \in DOMAIN queue : queue[k].id = m.id /\ queue[k].action # "create"}
  <1>1. /\ fl.at \in {"send", "resend"} /\ queue # <<>> /\ m.action # "create"
        /\ UNCHANGED <<undated, answers, local, queue, op, sy, ops>>
    BY DEF _applyWithConflictResolution
  <1>2. /\ m = queue[1] /\ 1 \in DOMAIN queue /\ IsId(m.id) /\ DOMAIN queue \subseteq Nat
        /\ m.vals \in AllVals /\ m.id \in Int
    BY <1>1, HeadIs DEF TypeOK
  <1>3. vals \in AllVals
    BY <1>2, ResolveIs DEF TypeOK, FlushOK, Rows
  <1>4. \/ code = "200" /\ server' = [server EXCEPT ![m.id] = item]
        \/ server' = server
    BY DEF _applyWithConflictResolution
  <1>5. \/ code = "200" /\ fl' = [at |-> "rebase", from |-> m.id, got |-> m.id, row |-> row, todo |-> todo]
        \/ FlushEnds \/ NextFlush("fetch") \/ NextFlush("pop")
    BY DEF _applyWithConflictResolution, DropRefused
  <1>6. code = "200" => /\ m.id \in DOMAIN server /\ item \in Items /\ item.thing = server[m.id].thing
                        /\ item.vals \in AllVals /\ item.version \in Nat \ {0}
    <2> HIDE DEF vals, m, again
    <2> QED
      BY <1>2, <1>3, CodeIs, AppliedIs DEF TypeOK
  <1>7. Grows /\ ItemsKept
    <2> HIDE DEF code, item, m
    <2>1. CASE server' = server
      BY <1>1, <2>1, Unchanging
    <2>2. CASE code = "200" /\ server' = [server EXCEPT ![m.id] = item]
      BY <1>1, <1>6, <2>2, Changing
    <2> QED
      BY <1>4, <2>1, <2>2
  <1>8. FlushOK'
    <2>1. CASE FlushEnds
      BY <2>1, SendNext DEF FlushEnds
    <2>2. CASE NextFlush("fetch") \/ NextFlush("pop")
      BY <1>1, <1>7, <2>2, NextFlushTypes DEF FlushStages
    <2>3. CASE code = "200" /\ fl' = [at |-> "rebase", from |-> m.id, got |-> m.id, row |-> row, todo |-> todo]
      <3>1. todo # {} /\ todo \in SUBSET Nat /\ todo \subseteq DOMAIN queue'
        BY <1>1, <1>2
      <3> HIDE DEF vals, code, item, m, todo
      <3>2. row \in Rows
        BY <1>6, <2>3, RowIs
      <3>3. m.id \in DOMAIN server'
        BY <1>6, <1>7, <2>3 DEF Grows
      <3> HIDE DEF row
      <3> QED
        BY <1>1, <1>2, <2>3, <3>1, <3>2, <3>3 DEF FlushOK
    <2> QED
      BY <1>5, <2>1, <2>2, <2>3
  <1> QED
    BY <1>1, <1>7, <1>8, Frame DEF TypeOK, Grows

LEMMA FetchTypes ==
  ASSUME TypeOK, _fetchServerItem PROVE TypeOK' /\ Grows
  <1> DEFINE i == Head(queue).id
             row == Row(server[i].vals, server[i].version)
  <1>1. /\ fl.at = "fetch" /\ UNCHANGED <<undated, server, answers, local, queue, op, sy, ops>>
        /\ \/ FlushEnds
           \/ i \in Listed /\ fl' = [fl EXCEPT !.at = "resend", !.row = row]
    BY DEF _fetchServerItem
  <1>2. Grows /\ queue # <<>>
    BY <1>1, Unchanging DEF TypeOK, FlushOK
  <1>3. FlushOK'
    <2>1. CASE FlushEnds
      BY <2>1, SendNext DEF FlushEnds
    <2>2. CASE i \in Listed /\ fl' = [fl EXCEPT !.at = "resend", !.row = row]
      <3>1. row \in Rows
        BY <2>2, ServerItem, RowIs DEF Listed, TypeOK
      <3> HIDE DEF row
      <3>2. fl' = [at |-> "resend", from |-> fl.from, got |-> fl.got, row |-> row, todo |-> fl.todo]
        BY <2>2 DEF TypeOK, FlushOK
      <3> QED
        BY <1>1, <1>2, <3>1, <3>2 DEF TypeOK, FlushOK
    <2> QED
      BY <1>1, <2>1, <2>2
  <1> QED
    BY <1>1, <1>2, <1>3, Frame DEF TypeOK, Grows

----------------------------------------
(* Types, step by step of a synchronisation, and of what goes on around.   *)
LEMMA SyncBeginTypes ==
  ASSUME TypeOK, syncInventoryItems \/ SeePending PROVE TypeOK' /\ Grows
  <1>1. /\ UNCHANGED <<undated, server, answers, local, queue, op, ops>>
        /\ fl' = [NoFlush EXCEPT !.at = "send"] \/ fl' = fl
        /\ sy' = [sy EXCEPT !.at = "flush"] \/ sy' = [sy EXCEPT !.at = "get", !.remaining = queue]
    BY DEF syncInventoryItems, SeePending, NextSync
  <1>2. Grows
    BY <1>1, Unchanging
  <1>3. FlushOK'
    BY <1>1, <1>2, SendNext, Frame
  <1>4. /\ DOMAIN sy = {"at", "remaining", "remote", "snapshot"}
        /\ IsQueue(sy.remaining) /\ IsTable(sy.remote) /\ IsTable(sy.snapshot) /\ IsQueue(queue)
    BY DEF TypeOK, SyncOK
  <1>5. /\ DOMAIN sy' = {"at", "remaining", "remote", "snapshot"} /\ sy'.at \in {"flush", "get"}
        /\ sy'.remote = sy.remote /\ sy'.snapshot = sy.snapshot
        /\ sy'.remaining = sy.remaining \/ sy'.remaining = queue
    BY <1>1, <1>4
  <1>6. /\ \A T : IsTable(T) => IsTable(T)'
        /\ \A ms : IsQueue(ms) => IsQueue(ms)'
    BY <1>2, Monotone DEF TypeOK
  <1>7. IsQueue(sy.remaining)' /\ IsTable(sy.remote)' /\ IsTable(sy.snapshot)'
    BY <1>4, <1>5, <1>6
  <1>8. SyncOK'
    BY <1>5, <1>7 DEF SyncOK
  <1> QED
    BY <1>1, <1>2, <1>3, <1>8, Frame DEF TypeOK, Grows

LEMMA NoSyncTypes == sy' = NoSync => SyncOK'
  <1>1. IsQueue(<<>>)' /\ IsTable(<<>>)'
    BY EmptySeq DEF IsQueue, IsTable
  <1> QED
    BY <1>1 DEF SyncOK, NoSync

LEMMA GetItemsTypes ==
  ASSUME TypeOK, GetItems PROVE TypeOK' /\ Grows
  <1> DEFINE remote == [i \in Listed |-> Row(server[i].vals, server[i].version)]
  <1>1. /\ UNCHANGED <<undated, server, answers, local, queue, op, fl, ops>>
        /\ sy' = NoSync \/ sy' = [sy EXCEPT !.at = "replace", !.remote = remote]
    BY DEF GetItems
  <1>2. Grows
    BY <1>1, Unchanging
  <1>3. SyncOK'
    <2>1. CASE sy' = NoSync
      BY <2>1, NoSyncTypes
    <2>2. CASE sy' = [sy EXCEPT !.at = "replace", !.remote = remote]
      <3>1. IsTable(remote)
        <4>1. \A i \in DOMAIN server : Row(server[i].vals, server[i].version) \in Rows
          BY ServerItem, RowIs DEF TypeOK
        <4> QED
          BY <4>1 DEF IsTable, IsId, Listed
      <3> HIDE DEF remote
      <3>2. /\ DOMAIN sy = {"at", "remaining", "remote", "snapshot"}
            /\ IsQueue(sy.remaining) /\ IsTable(sy.snapshot)
        BY DEF TypeOK, SyncOK
      <3>3. /\ DOMAIN sy' = {"at", "remaining", "remote", "snapshot"} /\ sy'.at = "replace"
            /\ sy'.remote = remote /\ sy'.snapshot = sy.snapshot /\ sy'.remaining = sy.remaining
        BY <2>2, <3>2
      <3>4. /\ \A T : IsTable(T) => IsTable(T)'
            /\ \A ms : IsQueue(ms) => IsQueue(ms)'
        BY <1>2, Monotone DEF TypeOK
      <3>5. IsQueue(sy.remaining)' /\ IsTable(sy.remote)' /\ IsTable(sy.snapshot)'
        BY <3>1, <3>2, <3>3, <3>4
      <3> QED
        BY <3>3, <3>5 DEF SyncOK
    <2> QED
      BY <1>1, <2>1, <2>2
  <1> QED
    BY <1>1, <1>2, <1>3, Frame DEF TypeOK, Grows

LEMMA ClearTypes ==
  ASSUME TypeOK, clearAll PROVE TypeOK' /\ Grows
  <1> DEFINE snapshot == IF sy.remaining = <<>> THEN <<>> ELSE [i \in getAllItems |-> local[i]]
  <1>1. /\ UNCHANGED <<undated, server, answers, queue, op, fl, ops>>
        /\ local' = <<>> /\ sy' = [sy EXCEPT !.at = "fill", !.snapshot = snapshot]
    BY DEF clearAll, Emptied
  <1>2. Grows
    BY <1>1, Unchanging
  <1>3. IsTable(snapshot)
    BY DEF IsTable, getAllItems, TypeOK
  <1> HIDE DEF snapshot
  <1>4. /\ DOMAIN sy = {"at", "remaining", "remote", "snapshot"}
        /\ IsQueue(sy.remaining) /\ IsTable(sy.remote)
    BY DEF TypeOK, SyncOK
  <1>5. /\ DOMAIN sy' = {"at", "remaining", "remote", "snapshot"} /\ sy'.at = "fill"
        /\ sy'.remote = sy.remote /\ sy'.snapshot = snapshot /\ sy'.remaining = sy.remaining
    BY <1>1, <1>4
  <1>6. /\ \A T : IsTable(T) => IsTable(T)'
        /\ \A ms : IsQueue(ms) => IsQueue(ms)'
    BY <1>2, Monotone DEF TypeOK
  <1>7. IsQueue(sy.remaining)' /\ IsTable(sy.remote)' /\ IsTable(sy.snapshot)' /\ IsTable(local)'
    BY <1>1, <1>3, <1>4, <1>5, <1>6, EmptyTable
  <1>8. SyncOK'
    BY <1>5, <1>7 DEF SyncOK
  <1> QED
    BY <1>1, <1>2, <1>7, <1>8, Frame DEF TypeOK, Grows

LEMMA ItemWith ==
  ASSUME NEW r \in Items, NEW vals, NEW n
  PROVE  [[r EXCEPT !.vals = vals] EXCEPT !.version = n] = [thing |-> r.thing, vals |-> vals, version |-> n]
  <1>1. PICK a : a = [r EXCEPT !.vals = vals]
    OBVIOUS
  <1>2. a = [thing |-> r.thing, vals |-> vals, version |-> r.version]
    BY <1>1 DEF Items
  <1>3. PICK b : b = [a EXCEPT !.version = n]
    OBVIOUS
  <1>4. b = [thing |-> r.thing, vals |-> vals, version |-> n]
    BY <1>2, <1>3
  <1> QED
    BY <1>1, <1>3, <1>4

LEMMA OtherTypes ==
  ASSUME TypeOK, Others PROVE TypeOK' /\ Grows /\ ItemsKept
  <1>1. PICK i \in DOMAIN server, c \in Columns, v \in Values \cup {"active", "frozen", "used", "gone"} :
          OtherChanges(i, c, v)
    BY DEF Others, Columns, HistoryVals
  <1> DEFINE vals == [server[i].vals EXCEPT ![c] = v]
             n == server[i].version + 1
             item == [[server[i] EXCEPT !.vals = vals] EXCEPT !.version = n]
  <1>2. server[i] \in Items /\ server[i].vals \in AllVals /\ server[i].version \in Nat \ {0}
    BY ServerItem DEF TypeOK
  <1>3. vals \in AllVals
    BY <1>2, StatusSet
  <1>4. n \in Nat \ {0}
    BY <1>2
  <1>5. /\ UNCHANGED <<undated, answers, local, queue, op, fl, sy, ops>>
        /\ server' = [server EXCEPT ![i] = item]
    BY <1>1 DEF OtherChanges
  <1> HIDE DEF vals, n
  <1>6. item = [thing |-> server[i].thing, vals |-> vals, version |-> n]
    BY <1>2, ItemWith
  <1>7. item \in Items /\ item.thing = server[i].thing
    BY <1>2, <1>3, <1>4, <1>6 DEF Items
  <1> HIDE DEF item
  <1>8. Grows /\ ItemsKept
    BY <1>5, <1>7, Changing
  <1> QED
    BY <1>5, <1>8, Frame DEF TypeOK, Grows

LEMMA RestartTypes ==
  ASSUME TypeOK, Connect \/ Disconnect \/ cleanupOrphanedItems PROVE TypeOK' /\ Grows
  <1>1. UNCHANGED <<undated, server, answers, queue, ops>>
    BY DEF Connect, Disconnect, cleanupOrphanedItems
  <1>2. Grows
    BY <1>1, Unchanging
  <1>3. CASE Connect \/ Disconnect
    BY <1>1, <1>2, <1>3, Frame DEF TypeOK, Grows, Connect, Disconnect
  <1>4. CASE cleanupOrphanedItems
    <2>1. PICK old : local' = Without(local, old)
      BY <1>4 DEF cleanupOrphanedItems
    <2>2. IsTable(local')
      BY <2>1, WithoutTable DEF TypeOK
    <2>3. IsTable(local)'
      BY <1>2, <2>2, Monotone DEF TypeOK
    <2>4. op' = NoOp /\ fl' = NoFlush /\ sy' = NoSync
      BY <1>4 DEF cleanupOrphanedItems
    <2> QED
      BY <1>1, <1>2, <2>3, <2>4, NoOpTypes, SendNext, NoSyncTypes, Frame DEF TypeOK, Grows
  <1> QED
    BY <1>3, <1>4

----------------------------------------
(* The pending mutations over the new table.                               *)
LEMMA ReappliedIs ==
  ASSUME TypeOK, NEW T, IsTable(T), NEW m \in Mutations, IsId(m.id)
  PROVE  IsTable(Reapplied(T, m))
  <1>1. m.vals \in AllVals
    BY DEF Mutations
  <1>2. \A i \in DOMAIN sy.snapshot : sy.snapshot[i] \in Rows
    BY DEF TypeOK, SyncOK, IsTable
  <1>3. Row(m.vals, 1) \in Rows
    BY <1>1, RowIs
  <1>4. CASE m.action = "create"
    <2> DEFINE row == IF m.id \in DOMAIN sy.snapshot THEN sy.snapshot[m.id] ELSE Row(m.vals, 1)
    <2>1. row \in Rows
      BY <1>2, <1>3
    <2>2. Reapplied(T, m) = With(T, m.id, row)
      BY <1>4 DEF Reapplied
    <2> HIDE DEF row
    <2> QED
      BY <2>1, <2>2, WithTable
  <1>5. CASE m.action = "update"
    <2>1. Reapplied(T, m) = IF m.id \in DOMAIN sy.snapshot THEN With(T, m.id, sy.snapshot[m.id]) ELSE T
      BY <1>5 DEF Reapplied
    <2> QED
      BY <1>2, <2>1, WithTable
  <1>6. CASE m.action \notin {"create", "update"}
    <2>1. CASE m.id \in DOMAIN T
      <3> DEFINE s == m.vals["status"]
                 row == [T[m.id] EXCEPT !.vals["status"] = s]
      <3>1. Reapplied(T, m) = [T EXCEPT ![m.id] = row]
        BY <1>6, <2>1 DEF Reapplied
      <3>2. s \in Values \cup {"active", "frozen", "used", "gone"}
        BY <1>1 DEF AllVals, Columns
      <3>3. T[m.id] \in Rows
        BY <2>1 DEF IsTable
      <3> HIDE DEF s
      <3>4. row \in Rows
        BY <3>2, <3>3, RowSet
      <3> HIDE DEF row
      <3> QED
        <4>1. PICK U : U = [T EXCEPT ![m.id] = row]
          OBVIOUS
        <4>2. IsTable(U)
          BY <2>1, <3>4, <4>1, ExceptTable
        <4> QED
          BY <3>1, <4>1, <4>2, Zenon
    <2>2. CASE m.id \notin DOMAIN T
      BY <1>6, <2>2 DEF Reapplied
    <2> QED
      BY <2>1, <2>2
  <1> QED
    BY <1>4, <1>5, <1>6

(* The greatest of some indices of a sequence.                             *)
LEMMA GreatestIsMember ==
  ASSUME NEW n \in Nat, NEW s \in SUBSET (1..n), s # {}
  PROVE  Max(s) \in s
  <1> DEFINE U == {m \in Nat : \A k \in s : k <= m}
  <1>1. U # {} /\ U \subseteq Nat
    <2>1. n \in U
      OBVIOUS
    <2> QED
      BY <2>1
  <1> HIDE DEF U
  <1>2. PICK u \in U : \A m \in U : ~ (<<m, u>> \in OpToRel(<, Nat))
    BY <1>1, NatLessThanWellFounded, WFMin
  <1>3. \A m \in U : ~ (m < u)
    BY <1>1, <1>2 DEF OpToRel
  <1>4. u \in Nat /\ \A k \in s : k \in Nat \ {0} /\ k <= u
    BY <1>1 DEF U
  <1>5. u \in s
    <2> SUFFICES ASSUME u \notin s PROVE FALSE
      OBVIOUS
    <2>1. ASSUME NEW k \in s PROVE k <= u - 1
      <3>1. k \in Nat /\ k <= u /\ k # u /\ u \in Nat
        BY <1>4
      <3> QED
        BY <3>1
    <2>2. u # 0
      <3>1. PICK k \in s : k \in Nat \ {0} /\ k <= u
        BY <1>4
      <3> QED
        BY <1>4, <3>1
    <2>3. u - 1 \in U
      BY <1>4, <2>1, <2>2 DEF U
    <2> QED
      BY <1>3, <1>4, <2>2, <2>3
  <1>6. \A k \in s : u >= k
    BY <1>4
  <1> QED
    BY <1>5, <1>6 DEF Max

(* The table by which the library folds over the indices of a sequence.    *)
Fill(filled, ms, g) ==
  g = [s \in SUBSET (DOMAIN ms) |-> IF s = {} THEN filled
                                    ELSE Reapplied(g[s \ {Max(s)}], ms[Max(s)])]

LEMMA FillDef ==
  ASSUME NEW filled, NEW ms
  PROVE  FoldLeft(Reapplied, filled, ms) = (CHOOSE g : Fill(filled, ms, g))[DOMAIN ms]
  BY DEF FoldLeft, MapThenFoldSet, Fill

(* Induction over the natural numbers, and over the subsets of a finite    *)
(* set, the facts given as a set.                                          *)
LEMMA NatSetInduction ==
  ASSUME NEW T, 0 \in T, \A n \in Nat : n \in T => n + 1 \in T
  PROVE  Nat \subseteq T
  <1> SUFFICES ASSUME ~ (Nat \subseteq T) PROVE FALSE
    OBVIOUS
  <1> DEFINE U == Nat \ T
  <1>1. U # {} /\ U \subseteq Nat
    OBVIOUS
  <1> HIDE DEF U
  <1>2. PICK n \in U : \A m \in U : ~ (<<m, n>> \in OpToRel(<, Nat))
    BY <1>1, NatLessThanWellFounded, WFMin
  <1>3. \A m \in U : ~ (m < n)
    BY <1>1, <1>2 DEF OpToRel
  <1>4. n \in Nat /\ n # 0
    BY <1>1 DEF U
  <1>5. n - 1 \in T
    BY <1>3, <1>4 DEF U
  <1>6. n - 1 \in Nat /\ (n - 1) + 1 = n
    BY <1>4
  <1> QED
    BY <1>5, <1>6 DEF U

LEMMA SubsetInduction ==
  ASSUME NEW S, IsFiniteSet(S), NEW T, T \subseteq SUBSET S,
         \A s \in SUBSET S : (\A t \in SUBSET s : t # s => t \in T) => s \in T
  PROVE  T = SUBSET S
  <1> SUFFICES ASSUME T # SUBSET S PROVE FALSE
    OBVIOUS
  <1> DEFINE U == (SUBSET S) \ T
  <1>1. U # {} /\ U \subseteq FiniteSubsetsOf(S)
    BY FS_FiniteSubsetsOfFinite, Zenon
  <1>2. IsWellFoundedOn(StrictSubsetOrdering(S), FiniteSubsetsOf(S))
    BY FS_StrictSubsetOrderingWellFounded
  <1> HIDE DEF U
  <1>3. PICK s \in U : \A t \in U : ~ (<<t, s>> \in StrictSubsetOrdering(S))
    BY <1>1, <1>2, WFMin
  <1>4. \A t \in SUBSET s : t # s => t \in T
    BY <1>3 DEF U, StrictSubsetOrdering
  <1> QED
    BY <1>3, <1>4 DEF U

LEMMA FillExists ==
  ASSUME NEW filled, NEW n \in Nat, NEW ms, DOMAIN ms = 1..n
  PROVE  \E g : Fill(filled, ms, g)
  <1> DEFINE S == 1..n
             Level(l) == {t \in SUBSET S : Cardinality(t) <= l}
             Body(g, s) == IF s = {} THEN filled ELSE Reapplied(g[s \ {Max(s)}], ms[Max(s)])
             T == {l \in Nat : \E g : g = [s \in Level(l) |-> Body(g, s)]}
  <1>a. \A s \in SUBSET S : /\ IsFiniteSet(s) /\ Cardinality(s) \in Nat
                            /\ s # {} => Cardinality(s \ {Max(s)}) = Cardinality(s) - 1
                            /\ s = {} <=> Cardinality(s) = 0
    <2>1. IsFiniteSet(S)
      BY FS_Interval
    <2>2. \A s \in SUBSET S : s # {} => Max(s) \in s
      BY GreatestIsMember
    <2> HIDE DEF S
    <2> QED
      BY <2>1, <2>2, FS_Subset, FS_RemoveElement, FS_CardinalityType, FS_EmptySet
  <1>b. \A s \in SUBSET S : Cardinality(s) \in Nat /\ (s = {} <=> Cardinality(s) = 0)
    BY <1>a
  <1> HIDE DEF S
  <1>1. 0 \in T
    <2> DEFINE g == [s \in Level(0) |-> filled]
    <2>1. \A s \in Level(0) : s = {}
      <3> SUFFICES ASSUME NEW s \in SUBSET S, Cardinality(s) <= 0 PROVE s = {}
        OBVIOUS
      <3> QED
        BY <1>b
    <2>2. g = [s \in Level(0) |-> Body(g, s)]
      BY <2>1
    <2> QED
      BY <2>2
  <1>2. ASSUME NEW l \in Nat, l \in T PROVE l + 1 \in T
    <2>1. PICK g : g = [s \in Level(l) |-> Body(g, s)]
      BY <1>2
    <2> DEFINE h == [s \in Level(l + 1) |-> Body(g, s)]
    <2>2. \A s \in Level(l) : h[s] = g[s]
      <3> SUFFICES ASSUME NEW s \in Level(l) PROVE h[s] = g[s]
        OBVIOUS
      <3>1. s \in Level(l + 1)
        <4>1. s \in SUBSET S /\ Cardinality(s) <= l
          OBVIOUS
        <4> QED
          BY <1>b, <4>1
      <3>2. h[s] = Body(g, s)
        BY <3>1
      <3> HIDE DEF h, Body
      <3> QED
        BY <2>1, <3>2
    <2>3. ASSUME NEW s \in Level(l + 1) PROVE Body(g, s) = Body(h, s)
      <3>1. CASE s = {}
        BY <3>1
      <3>2. CASE s # {}
        <4>1. s \ {Max(s)} \in Level(l)
          <5>1. s \in SUBSET S /\ Cardinality(s) <= l + 1 /\ Cardinality(s \ {Max(s)}) = Cardinality(s) - 1
            BY <1>a, <3>2
          <5> QED
            BY <1>b, <5>1
        <4> HIDE DEF h, Level
        <4> QED
          BY <2>2, <4>1, <3>2
      <3> QED
        BY <3>1, <3>2
    <2>4. h = [s \in Level(l + 1) |-> Body(h, s)]
      <3>1. h = [s \in Level(l + 1) |-> Body(g, s)]
        OBVIOUS
      <3> HIDE DEF Body, Level, h
      <3> QED
        BY <2>3, <3>1
    <2>5. \E g1 : g1 = [s \in Level(l + 1) |-> Body(g1, s)]
      <3> HIDE DEF Body, Level, h
      <3> QED
        BY <2>4
    <2> HIDE DEF Body, Level, h
    <2> QED
      BY <2>5
  <1>3. Nat \subseteq T
    <2> HIDE DEF T
    <2> QED
      BY <1>1, <1>2, NatSetInduction
  <1>c. IsFiniteSet(S)
    BY <1>a
  <1>4. Cardinality(S) \in T
    BY <1>3, <1>a
  <1>5. Level(Cardinality(S)) = SUBSET S
    BY FS_Subset, <1>a, <1>c
  <1>6. PICK g : g = [s \in Level(Cardinality(S)) |-> Body(g, s)]
    BY <1>4
  <1>7. g = [s \in SUBSET S |-> Body(g, s)]
    BY <1>5, <1>6
  <1> QED
    BY <1>7 DEF Fill, S

LEMMA FilledIs ==
  ASSUME TypeOK, NEW filled, IsTable(filled), NEW ms, IsQueue(ms)
  PROVE  IsTable(FoldLeft(Reapplied, filled, ms))
  <1>1. PICK n \in Nat : DOMAIN ms = 1..n
    BY Indices DEF IsQueue
  <1> DEFINE g == CHOOSE h : Fill(filled, ms, h)
             S == 1..n
             T == {s \in SUBSET S : IsTable(g[s])}
  <1>2. Fill(filled, ms, g)
    BY <1>1, FillExists
  <1>3. FoldLeft(Reapplied, filled, ms) = g[S]
    BY <1>1, FillDef
  <1> HIDE DEF g
  <1>4. \A s \in SUBSET S : g[s] = IF s = {} THEN filled ELSE Reapplied(g[s \ {Max(s)}], ms[Max(s)])
    BY <1>1, <1>2 DEF Fill
  <1>5. \A k \in S : ms[k] \in Mutations /\ IsId(ms[k].id)
    BY <1>1, Indices DEF IsQueue
  <1>6. ASSUME NEW s \in SUBSET S, \A t \in SUBSET s : t # s => t \in T
        PROVE  s \in T
    <2>1. CASE s = {}
      <3>1. g[s] = filled
        BY <1>4, <2>1
      <3> QED
        BY <3>1
    <2>2. CASE s # {}
      <3>1. Max(s) \in s /\ Max(s) \in S
        BY <2>2, GreatestIsMember
      <3>2. s \ {Max(s)} \in T
        BY <1>6, <3>1
      <3>3. g[s] = Reapplied(g[s \ {Max(s)}], ms[Max(s)])
        BY <1>4, <2>2
      <3>4. IsTable(g[s \ {Max(s)}])
        BY <3>2
      <3> HIDE DEF T
      <3>5. IsTable(g[s])
        BY <1>5, <3>1, <3>3, <3>4, ReappliedIs
      <3> QED
        BY <3>5 DEF T
    <2> QED
      BY <2>1, <2>2
  <1>7. T = SUBSET S
    <2>1. IsFiniteSet(S) /\ T \subseteq SUBSET S
      BY FS_Interval
    <2> HIDE DEF S, T
    <2> QED
      BY <1>6, <2>1, SubsetInduction
  <1>8. S \in T
    BY <1>7
  <1> QED
    BY <1>3, <1>8

LEMMA ReplaceTypes ==
  ASSUME TypeOK, _replaceCache PROVE TypeOK' /\ Grows
  <1> DEFINE filled == [i \in DOMAIN local \cup DOMAIN sy.remote |->
                          IF i \in DOMAIN sy.remote THEN sy.remote[i] ELSE local[i]]
  <1>1. /\ UNCHANGED <<undated, server, answers, queue, op, fl, ops>> /\ sy' = NoSync
        /\ local' = FoldLeft(Reapplied, filled, sy.remaining)
    BY DEF _replaceCache
  <1>2. Grows
    BY <1>1, Unchanging
  <1>3. IsTable(filled)
    BY DEF TypeOK, SyncOK, IsTable
  <1> HIDE DEF filled
  <1>4. IsTable(local')
    BY <1>1, <1>3, FilledIs DEF TypeOK, SyncOK
  <1>5. IsTable(local)'
    BY <1>2, <1>4, Monotone DEF TypeOK
  <1> QED
    BY <1>1, <1>2, <1>5, NoSyncTypes, Frame DEF TypeOK, Grows

----------------------------------------
(* Types, all steps together.                                              *)
LEMMA TypesStep == TypeOK /\ [Next]_vars => TypeOK' /\ Grows
  <1> SUFFICES ASSUME TypeOK, [Next]_vars PROVE TypeOK' /\ Grows
    OBVIOUS
  <1>1. CASE createInventoryItem \/ updateItem \/ updateItemStatus
    BY <1>1, CreateTypes, UpdateTypes, StatusTypes
  <1>2. CASE OpStep
    BY <1>2, SendCreateTypes, SendChangeTypes, CacheTypes, RevertTypes, KeepTypes, EnqueueTypes DEF OpStep
  <1>3. CASE flushPendingMutations \/ FlushStep
    BY <1>3, FlushBeginTypes, FlushCreateTypes, AsideTypes, RetargetTypes, DropLocalTypes, ApplyTypes, FetchTypes,
       RebaseTypes, PutSyncedTypes, DeleteTypes DEF FlushStep
  <1>4. CASE SyncStep
    BY <1>4, SyncBeginTypes, GetItemsTypes, ClearTypes, ReplaceTypes DEF SyncStep
  <1>5. CASE Others \/ Connect \/ Disconnect \/ cleanupOrphanedItems
    BY <1>5, OtherTypes, RestartTypes
  <1>6. CASE UNCHANGED vars
    <2>1. UNCHANGED <<server, answers, local, queue, undated, op, fl, sy, ops>>
      BY <1>6 DEF vars
    <2>2. Grows
      BY <2>1, Unchanging
    <2> QED
      BY <2>1, <2>2, Frame DEF TypeOK, Grows
  <1> QED
    BY <1>1, <1>2, <1>3, <1>4, <1>5, <1>6 DEF Next

(* The tables, the queue, the server's items and what is kept of each call *)
(* have their types: what the app takes for an id is one of the server's   *)
(* or one that it made, and the flush knows the item it has an answer for. *)
THEOREM TypeCorrectness == Spec => []TypeOK
  <1>1. Init => TypeOK
    BY TypesInit
  <1>2. TypeOK /\ [Next]_vars => TypeOK'
    BY TypesStep
  <1> QED
    BY <1>1, <1>2, PTL DEF Spec

----------------------------------------
(* What a step does to the server: nothing, a change, or a new item.       *)
LEMMA LaterSame == ASSUME server' = server, undated \subseteq undated' PROVE Later
  BY DEF Later

LEMMA LaterAltered ==
  ASSUME ServerOK, NEW i, NEW set, NEW vals, Alters(i, set, vals), undated \subseteq undated'
  PROVE  Later
  <1>1. server[i].version \in Nat
    BY ServerItem DEF Alters
  <1> QED
    BY <1>1 DEF Later, Alters, ItemsKept

LEMMA LaterMade ==
  ASSUME NEW n, NEW t, NEW vals, Makes(n, t, vals), undated \subseteq undated'
  PROVE  Later
  BY DEF Later, Makes

LEMMA Accepted ==
  ASSUME TypeOK, NEW i, IsId(i), NEW version, NEW action, NEW vals \in AllVals, Code(i, version) = "200",
         NEW item, item = Applied(i, action, vals), DOMAIN server' = DOMAIN server,
         \A j \in DOMAIN server : server'[j] = IF j = i THEN item ELSE server[j]
  PROVE  /\ Alters(i, SetOf(action), vals) /\ server[i].version = version
         /\ server'[i].vals = item.vals /\ server'[i].version = item.version
  <1>1. i \in DOMAIN server /\ ~ (i < 0)
    BY CodeIs DEF TypeOK
  <1>2. server[i].vals["status"] # "gone" /\ server[i].version = version
    BY <1>1 DEF Code
  <1>4. server[i] \in Items /\ server[i].version \in Nat \ {0} /\ server \in Seq(Items)
    BY <1>1, ServerItem DEF TypeOK, ServerOK, Items
  <1>5. item \in Items /\ item.thing = server[i].thing
    BY <1>1, AppliedIs DEF TypeOK
  <1>6. /\ item.version = server[i].version + 1
        /\ \A c \in Columns : item.vals[c] = IF c \in SetOf(action) THEN vals[c] ELSE server[i].vals[c]
    BY <1>4 DEF Applied, Items, SetOf
  <1> QED
    BY <1>1, <1>2, <1>5, <1>6 DEF Alters, ItemsKept

LEMMA AppendMakes ==
  ASSUME TypeOK, NEW t \in 0..ops, NEW vals \in AllVals, server' = Append(server, Created(t, vals))
  PROVE  Makes(Len(server) + 1, t, vals)
  <1>1. server \in Seq(Items) /\ Len(server) \in Nat
    BY DEF TypeOK, ServerOK, Items
  <1>2. Created(t, vals) \in Items
    BY CreatedIs
  <1> QED
    BY <1>1, <1>2, Appended DEF Makes

----------------------------------------
(* What each request does.                                                 *)
LEMMA SendCreateDoes ==
  ASSUME TypeOK, SendCreate
  PROVE  LET t == - op.id
         IN  /\ op.at = "send" /\ op.action = "create" /\ t \in 1..ops /\ op.id < 0
             /\ UNCHANGED <<undated, queue, fl, sy, answers, local, theirs, touched, resent, ops>>
             /\ \/ /\ \E n : /\ Makes(n, t, op.row.vals)
                             /\ op' = [op EXCEPT !.at = "cache", !.id = n, !.row = Row(Created(t, op.row.vals).vals, 1)]
                   /\ Promise(t, Columns, Created(t, op.row.vals).vals) /\ doubled' = doubled
                \/ /\ \E n : Makes(n, t, op.row.vals)
                   /\ NextOp("keep") /\ mine' = mine /\ doubled' = doubled \cup {t}
                \/ UNCHANGED <<server, mine, doubled>> /\ NextOp("keep")
  <1>1. PICK t \in 1..ops : t = - op.id /\ t = offline_id(op.id)
    BY DEF SendCreate, TypeOK, OpOK, offline_id
  <1>2. op.row.vals \in AllVals /\ t \in 0..ops /\ ops \in Nat /\ op.id \in Int
    BY <1>1, OfflineSyncAssumption DEF SendCreate, TypeOK, OpOK, Rows, ServerOK
  <1>3. server' = Append(server, Created(t, op.row.vals)) => Makes(Len(server) + 1, t, op.row.vals)
    BY <1>2, AppendMakes
  <1>4. /\ op.at = "send" /\ op.action = "create"
        /\ UNCHANGED <<undated, queue, fl, sy, answers, local, theirs, touched, resent, ops>>
    BY DEF SendCreate
  <1>5. AfterNoAnswer => NextOp("keep")
    BY <1>4 DEF AfterNoAnswer
  <1>6. \/ /\ server' = Append(server, Created(t, op.row.vals)) /\ doubled' = doubled
           /\ Promise(t, Columns, Created(t, op.row.vals).vals)
           /\ op' = [op EXCEPT !.at = "cache", !.id = Len(server) + 1, !.row = Row(Created(t, op.row.vals).vals, 1)]
        \/ server' = Append(server, Created(t, op.row.vals)) /\ AfterNoAnswer /\ doubled' = doubled \cup {t} /\ mine' = mine
        \/ UNCHANGED <<server, mine, doubled>> /\ AfterNoAnswer
    BY <1>1, Zenon DEF SendCreate
  <1>7. op.id < 0
    BY <1>1, <1>2
  <1> QED
    BY <1>1, <1>3, <1>4, <1>5, <1>6, <1>7

LEMMA SendChangeDoes ==
  ASSUME TypeOK, SendChange
  PROVE  /\ op.at = "send" /\ op.action \in {"update", "status_update"} /\ IsId(op.id) /\ op.row \in Rows
         /\ UNCHANGED <<undated, queue, fl, sy, answers, local, theirs, touched, doubled, resent, ops>>
         /\ \/ /\ Alters(op.id, SetOf(op.action), op.row.vals) /\ op.row.version = server[op.id].version
               /\ \/ /\ op' = [op EXCEPT !.at = "cache", !.row = Row(server'[op.id].vals, server'[op.id].version)]
                     /\ Promise(Thing(op.id), op.dirty, server'[op.id].vals)
                  \/ mine' = mine /\ ((NextOp("keep") /\ op.action = "update") \/ (NextOp("queue") /\ op.action = "status_update"))
            \/ /\ UNCHANGED <<server, mine>>
               /\ \/ op' = NoOp
                  \/ NextOp("keep") /\ op.action = "update"
                  \/ (NextOp("queue") \/ NextOp("revert")) /\ op.action = "status_update"
  <1> DEFINE code == Code(op.id, op.row.version)
             item == Applied(op.id, op.action, op.row.vals)
  <1>1. /\ op.at = "send" /\ op.action # "create"
        /\ UNCHANGED <<undated, queue, fl, sy, answers, local, theirs, touched, doubled, resent, ops>>
    BY DEF SendChange
  <1>2. /\ op.row \in Rows /\ IsId(op.id) /\ op.action \in Actions /\ op.row.vals \in AllVals
        /\ op.action \in {"update", "status_update"} /\ DOMAIN op = {"at", "action", "id", "row", "base", "dirty"}
    BY <1>1 DEF TypeOK, OpOK, Rows, Actions
  <1>3. ASSUME code = "200", server' = [server EXCEPT ![op.id] = item]
        PROVE  /\ Alters(op.id, SetOf(op.action), op.row.vals) /\ op.row.version = server[op.id].version
               /\ server'[op.id].vals = item.vals /\ server'[op.id].version = item.version
    <2>1. PICK i, version, action, vals, new :
            /\ i = op.id /\ version = op.row.version /\ action = op.action /\ vals = op.row.vals
            /\ new = item
      OBVIOUS
    <2>2. Code(i, version) = "200" /\ IsId(i) /\ vals \in AllVals /\ new = Applied(i, action, vals)
      BY <1>2, <1>3, <2>1
    <2>3. DOMAIN server' = DOMAIN server /\ \A j \in DOMAIN server : server'[j] = IF j = i THEN new ELSE server[j]
      BY <1>3, <2>1
    <2> HIDE DEF item, code
    <2>4. /\ Alters(i, SetOf(action), vals) /\ server[i].version = version
          /\ server'[i].vals = new.vals /\ server'[i].version = new.version
      BY <2>2, <2>3, Accepted
    <2> QED
      BY <2>1, <2>4
  <1>4. AfterNoAnswer => \/ NextOp("keep") /\ op.action = "update"
                         \/ NextOp("queue") /\ op.action = "status_update"
    BY <1>2 DEF AfterNoAnswer
  <1> HIDE DEF item
  <1>5. \/ /\ code = "200" /\ server' = [server EXCEPT ![op.id] = item]
           /\ op' = [op EXCEPT !.at = "cache", !.row = Row(item.vals, item.version)]
           /\ Promise(Thing(op.id), op.dirty, item.vals)
        \/ /\ code = "200" /\ server' = [server EXCEPT ![op.id] = item] /\ mine' = mine /\ AfterNoAnswer
        \/ UNCHANGED <<server, mine>> /\ AfterNoAnswer
        \/ /\ UNCHANGED <<server, mine>>
           /\ op' = NoOp \/ (NextOp("revert") /\ op.action = "status_update")
    BY DEF SendChange, item
  <1> HIDE DEF code
  <1>6. CASE code = "200" /\ server' = [server EXCEPT ![op.id] = item]
    BY <1>1, <1>2, <1>3, <1>4, <1>5, <1>6
  <1>7. CASE UNCHANGED <<server, mine>> /\ AfterNoAnswer
    BY <1>1, <1>2, <1>4, <1>7
  <1>8. CASE UNCHANGED <<server, mine>> /\ (op' = NoOp \/ (NextOp("revert") /\ op.action = "status_update"))
    BY <1>1, <1>2, <1>8
  <1> QED
    BY <1>5, <1>6, <1>7, <1>8

LEMMA FlushCreateDoes ==
  ASSUME TypeOK, FlushCreate
  PROVE  LET m == queue[1]
             todo == {k \in DOMAIN queue : queue[k].id = m.id}
         IN  /\ fl.at = "send" /\ 1 \in DOMAIN queue /\ m.action = "create" /\ m \in Mutations /\ IsId(m.id) /\ m.key \notin undated
             /\ UNCHANGED <<undated, local, queue, op, sy, mine, theirs, doubled, resent, ops>>
             /\ \/ FlushOff /\ UNCHANGED <<server, answers, touched>>
                \/ \E id, row :
                     /\ answers' = With(answers, m.key, [id |-> id, row |-> row])
                     /\ \/ /\ m.key \in DOMAIN answers /\ server' = server
                           /\ id = answers[m.key].id /\ row = answers[m.key].row
                        \/ /\ m.key \notin DOMAIN answers /\ Makes(id, m.key, m.vals)
                           /\ row = Row(Created(m.key, m.vals).vals, 1)
                     /\ \/ FlushOff /\ touched' = touched
                        \/ /\ fl' = [at |-> "retarget", from |-> m.id, got |-> id, row |-> row, todo |-> todo]
                           /\ touched' = touched \cup {<<m.key, c>> : c \in UNION {SetBack(k) : k \in todo}}
  <1> DEFINE m == Head(queue)
             todo == {k \in DOMAIN queue : queue[k].id = m.id}
  <1>1. /\ queue # <<>> /\ fl.at = "send" /\ m.action = "create" /\ m.key \notin undated
        /\ UNCHANGED <<undated, local, queue, op, sy, mine, theirs, doubled, resent, ops>>
    BY DEF FlushCreate
  <1>2. /\ m = queue[1] /\ 1 \in DOMAIN queue /\ m \in Mutations /\ IsId(m.id)
        /\ m.vals \in AllVals /\ m.key \in 0..ops
    BY <1>1, HeadIs DEF TypeOK
  <1>a. PICK known \in BOOLEAN : \E id, row :
          /\ known <=> m.key \in DOMAIN answers
          /\ id = IF known THEN answers[m.key].id ELSE Len(server) + 1
          /\ row = IF known THEN answers[m.key].row ELSE Row(Created(m.key, m.vals).vals, 1)
          /\ \/ /\ server' = IF known THEN server ELSE Append(server, Created(m.key, m.vals))
                /\ answers' = With(answers, m.key, [id |-> id, row |-> row])
                /\ \/ /\ fl' = [at |-> "retarget", from |-> m.id, got |-> id, row |-> row, todo |-> todo]
                      /\ touched' = touched \cup {<<m.key, c>> : c \in UNION {SetBack(k) : k \in todo}}
                   \/ FlushEnds /\ touched' = touched
             \/ FlushEnds /\ UNCHANGED <<server, answers, touched>>
    <2> DEFINE known == m.key \in DOMAIN answers
               id == IF known THEN answers[m.key].id ELSE Len(server) + 1
               row == IF known THEN answers[m.key].row ELSE Row(Created(m.key, m.vals).vals, 1)
    <2>1. \/ /\ server' = IF known THEN server ELSE Append(server, Created(m.key, m.vals))
             /\ answers' = With(answers, m.key, [id |-> id, row |-> row])
             /\ \/ /\ fl' = [at |-> "retarget", from |-> m.id, got |-> id, row |-> row, todo |-> todo]
                   /\ touched' = touched \cup {<<m.key, c>> : c \in UNION {SetBack(k) : k \in todo}}
                \/ FlushEnds /\ touched' = touched
          \/ FlushEnds /\ UNCHANGED <<server, answers, touched>>
      BY Zenon DEF FlushCreate, Known
    <2>2. known \in BOOLEAN
      OBVIOUS
    <2> HIDE DEF todo, m
    <2> QED
      BY <2>1, <2>2, Zenon
  <1>3. PICK id, row :
          /\ known <=> m.key \in DOMAIN answers
          /\ id = IF known THEN answers[m.key].id ELSE Len(server) + 1
          /\ row = IF known THEN answers[m.key].row ELSE Row(Created(m.key, m.vals).vals, 1)
          /\ \/ /\ server' = IF known THEN server ELSE Append(server, Created(m.key, m.vals))
                /\ answers' = With(answers, m.key, [id |-> id, row |-> row])
                /\ \/ /\ fl' = [at |-> "retarget", from |-> m.id, got |-> id, row |-> row, todo |-> todo]
                      /\ touched' = touched \cup {<<m.key, c>> : c \in UNION {SetBack(k) : k \in todo}}
                   \/ FlushEnds /\ touched' = touched
             \/ FlushEnds /\ UNCHANGED <<server, answers, touched>>
    BY <1>a
  <1>4. FlushEnds => FlushOff
    BY DEF FlushEnds, FlushOff
  <1>5. PICK t, vals : t = m.key /\ vals = m.vals
    OBVIOUS
  <1>6. server' = Append(server, Created(t, vals)) => Makes(Len(server) + 1, t, vals)
    BY <1>2, <1>5, AppendMakes
  <1> DEFINE Done == /\ answers' = With(answers, m.key, [id |-> id, row |-> row])
                     /\ \/ /\ m.key \in DOMAIN answers /\ server' = server
                           /\ id = answers[m.key].id /\ row = answers[m.key].row
                        \/ /\ m.key \notin DOMAIN answers /\ Makes(id, m.key, m.vals)
                           /\ row = Row(Created(m.key, m.vals).vals, 1)
             Told == fl' = [at |-> "retarget", from |-> m.id, got |-> id, row |-> row, todo |-> todo]
             Spoilt == touched' = touched \cup {<<m.key, c>> : c \in UNION {SetBack(k) : k \in todo}}
  <1>7. CASE FlushEnds /\ UNCHANGED <<server, answers, touched>>
    BY <1>1, <1>2, <1>4, <1>7
  <1>8. CASE ~ (FlushEnds /\ UNCHANGED <<server, answers, touched>>)
    <2>1. Done
      <3>1. CASE known
        BY <1>3, <1>8, <3>1
      <3>2. CASE ~ known
        BY <1>3, <1>5, <1>6, <1>8, <3>2
      <3> QED
        BY <3>1, <3>2
    <2>2. (FlushOff /\ touched' = touched) \/ (Told /\ Spoilt)
      <3> HIDE DEF m, todo
      <3> QED
        BY <1>3, <1>4, <1>8
    <2>3. m = queue[1]
      BY <1>2
    <2> QED
      <3>1. Done /\ ((FlushOff /\ touched' = touched) \/ (Told /\ Spoilt))
        BY <2>1, <2>2
      <3> QED
        BY <1>1, <1>2, <2>3, <3>1
  <1> QED
    BY <1>7, <1>8

LEMMA NotStoredDoes ==
  ASSUME TypeOK, AnswerNotStored
  PROVE  LET m == queue[1]
         IN  /\ fl.at = "send" /\ 1 \in DOMAIN queue /\ m.action = "create" /\ m \in Mutations /\ IsId(m.id)
             /\ m.key \notin undated /\ m.key \notin DOMAIN answers /\ m.key \in 0..ops
             /\ UNCHANGED <<undated, answers, local, queue, op, sy, mine, theirs, touched, resent, ops>>
             /\ FlushOff /\ doubled' = doubled \cup {m.key} /\ \E n : Makes(n, m.key, m.vals)
  <1>1. PICK m : m = Head(queue)
    OBVIOUS
  <1>2. /\ queue # <<>> /\ fl.at = "send" /\ m.action = "create" /\ m.key \notin undated /\ m.key \notin DOMAIN answers
        /\ UNCHANGED <<undated, answers, local, queue, op, sy, mine, theirs, touched, resent, ops>>
        /\ FlushOff /\ doubled' = doubled \cup {m.key} /\ server' = Append(server, Created(m.key, m.vals))
    BY <1>1 DEF AnswerNotStored, Known, FlushEnds, FlushOff
  <1>3. m = queue[1] /\ 1 \in DOMAIN queue /\ m \in Mutations /\ IsId(m.id) /\ m.vals \in AllVals /\ m.key \in 0..ops
    BY <1>1, <1>2, HeadIs DEF TypeOK
  <1> QED
    BY <1>2, <1>3, AppendMakes

LEMMA RefuseDoes ==
  ASSUME TypeOK, RefuseCreate
  PROVE  /\ UNCHANGED <<server, answers, local, queue, undated, op, sy, history, ops>>
         /\ fl.at = "send" /\ 1 \in DOMAIN queue /\ queue[1].action = "create" /\ queue[1].key \in undated
         /\ fl'.at \in {"off", "pop"} /\ (FlushOff \/ fl' = [fl EXCEPT !.at = "pop"])
  <1>1. /\ UNCHANGED <<server, answers, local, queue, undated, op, sy, history, ops>>
        /\ fl.at = "send" /\ queue # <<>> /\ Head(queue).action = "create" /\ Head(queue).key \in undated
        /\ fl' = NoFlush \/ fl' = [fl EXCEPT !.at = "pop"]
    BY DEF RefuseCreate, DropRefused, NextFlush, FlushEnds
  <1>2. fl'.at \in {"off", "pop"}
    BY <1>1 DEF NoFlush, TypeOK, FlushOK
  <1> QED
    BY <1>1, <1>2, HeadIs DEF FlushOff, TypeOK

LEMMA ApplyDoes ==
  ASSUME TypeOK, _applyWithConflictResolution
  PROVE  LET m == queue[1]
             again == fl.at = "resend"
             vals == IF again THEN resolve(fl.row.vals, m.vals, m.base, m.dirty) ELSE m.vals
             version == IF again THEN fl.row.version ELSE m.version
             todo == {k \in DOMAIN queue : queue[k].id = m.id /\ queue[k].action # "create"}
         IN  /\ fl.at \in {"send", "resend"} /\ 1 \in DOMAIN queue
             /\ m.action \in {"update", "status_update"} /\ m \in Mutations /\ IsId(m.id)
             /\ UNCHANGED <<undated, answers, local, queue, op, sy, history, ops>>
             /\ \/ /\ Alters(m.id, SetOf(m.action), vals) /\ server[m.id].version = version
                   /\ \/ FlushOff
                      \/ fl' = [at |-> "rebase", from |-> m.id, got |-> m.id,
                                row |-> Row(server'[m.id].vals, server'[m.id].version), todo |-> todo]
                \/ /\ server' = server
                   /\ \/ FlushOff
                      \/ /\ NextFlush("fetch") /\ ~ again /\ m.id \in DOMAIN server
                         /\ server[m.id].version # m.version
                      \/ /\ NextFlush("pop")
                         /\ m.id < 0 \/ (m.id \in DOMAIN server /\ server[m.id].vals["status"] = "gone")
  <1> DEFINE m == Head(queue)
             again == fl.at = "resend"
             todo == {k \in DOMAIN queue : queue[k].id = m.id /\ queue[k].action # "create"}
  <1>1. /\ fl.at \in {"send", "resend"} /\ queue # <<>> /\ m.action # "create"
        /\ UNCHANGED <<undated, answers, local, queue, op, sy, history, ops>>
    BY DEF _applyWithConflictResolution
  <1>2. /\ m = queue[1] /\ 1 \in DOMAIN queue /\ m \in Mutations /\ IsId(m.id)
        /\ m.vals \in AllVals /\ m.action \in {"update", "status_update"}
    BY <1>1, HeadIs DEF TypeOK, Actions
  <1>3. resolve(fl.row.vals, m.vals, m.base, m.dirty) \in AllVals \/ ~ again
    BY <1>2, ResolveIs DEF TypeOK, FlushOK, Rows
  <1>4. PICK i, action, vals, version, code, item :
          /\ i = m.id /\ action = m.action
          /\ vals = IF again THEN resolve(fl.row.vals, m.vals, m.base, m.dirty) ELSE m.vals
          /\ version = IF again THEN fl.row.version ELSE m.version
          /\ code = Code(i, version) /\ item = Applied(i, action, vals)
    OBVIOUS
  <1>5. IsId(i) /\ vals \in AllVals
    BY <1>2, <1>3, <1>4
  <1>6. \/ /\ server' = IF code = "200" THEN [server EXCEPT ![i] = item] ELSE server
           /\ CASE code = "200" -> fl' = [at |-> "rebase", from |-> i, got |-> i,
                                          row |-> Row(item.vals, item.version), todo |-> todo]
                [] code = "409" -> IF again THEN FlushEnds ELSE NextFlush("fetch")
                [] OTHER -> DropRefused
        \/ /\ server' = (IF code = "200" THEN [server EXCEPT ![i] = item] ELSE server)
           /\ FlushEnds
        \/ FlushEnds /\ server' = server
    BY <1>4, Zenon DEF _applyWithConflictResolution
  <1>7. /\ code \in {"422", "404", "409", "200"}
        /\ code = "409" => i \in DOMAIN server /\ server[i].version # version
        /\ code \in {"422", "404"} => i < 0 \/ (i \in DOMAIN server /\ server[i].vals["status"] = "gone")
    BY <1>4, <1>5, ThingIs DEF Code, TypeOK
  <1>8. FlushEnds => FlushOff
    BY DEF FlushEnds, FlushOff
  <1> HIDE DEF m, todo, again
  <1>9. ASSUME code = "200", server' = [server EXCEPT ![i] = item]
        PROVE  /\ Alters(i, SetOf(action), vals) /\ server[i].version = version
               /\ server'[i].vals = item.vals /\ server'[i].version = item.version
    <2>1. DOMAIN server' = DOMAIN server /\ \A j \in DOMAIN server : server'[j] = IF j = i THEN item ELSE server[j]
      BY <1>9
    <2> QED
      BY <1>4, <1>5, <1>9, <2>1, Accepted
  <1>10. \/ /\ Alters(i, SetOf(action), vals) /\ server[i].version = version
            /\ \/ FlushOff
               \/ fl' = [at |-> "rebase", from |-> i, got |-> i,
                         row |-> Row(server'[i].vals, server'[i].version), todo |-> todo]
         \/ /\ server' = server
            /\ \/ FlushOff
               \/ /\ NextFlush("fetch") /\ ~ again /\ i \in DOMAIN server /\ server[i].version # version
               \/ /\ NextFlush("pop")
                  /\ i < 0 \/ (i \in DOMAIN server /\ server[i].vals["status"] = "gone")
    <2>1. CASE code = "200" /\ server' = [server EXCEPT ![i] = item]
      BY <1>6, <1>8, <1>9, <2>1
    <2>2. CASE ~ (code = "200" /\ server' = [server EXCEPT ![i] = item])
      <3>1. \/ server' = server /\ FlushEnds
            \/ server' = server /\ code = "409" /\ ~ again /\ NextFlush("fetch")
            \/ server' = server /\ code \in {"422", "404"} /\ NextFlush("pop")
        <4>1. CASE code = "200"
          BY <1>6, <2>2, <4>1
        <4>2. CASE code = "409"
          BY <1>6, <4>2
        <4>3. CASE code \in {"422", "404"}
          BY <1>6, <4>3 DEF DropRefused
        <4> QED
          BY <1>7, <4>1, <4>2, <4>3
      <3> QED
        BY <1>7, <1>8, <3>1
    <2> QED
      BY <2>1, <2>2
  <1> QED
    BY <1>1, <1>2, <1>4, <1>10 DEF m, todo, again

LEMMA LeastIs ==
  ASSUME NEW S \in SUBSET Nat, S # {}
  PROVE  Min(S) \in S /\ \A n \in S : Min(S) <= n
  <1>1. PICK n \in S : \A m \in S : ~ (<<m, n>> \in OpToRel(<, Nat))
    BY NatLessThanWellFounded, WFMin
  <1>2. \A m \in S : ~ (m < n)
    BY <1>1 DEF OpToRel
  <1>3. \A m \in S : m \in Nat
    OBVIOUS
  <1>4. \A m \in S : n <= m
    BY <1>2, <1>3
  <1> QED
    BY <1>4 DEF Min

LEMMA RetargetDoes ==
  ASSUME TypeOK, _retargetPendingMutations
  PROVE  /\ fl.at = "retarget" /\ UNCHANGED <<undated, server, answers, local, op, sy, history, ops>>
         /\ DOMAIN queue' = DOMAIN queue
         /\ \E k \in fl.todo :
              /\ k \in DOMAIN queue /\ \A j \in fl.todo : k <= j
              /\ \A j \in DOMAIN queue : j # k => queue'[j] = queue[j]
              /\ Readdressed(queue[k], queue'[k], fl.got,
                             IF queue[k].action = "create" THEN queue[k].version ELSE fl.row.version)
              /\ fl'.at \in {"retarget", "drop"} /\ fl'.from = fl.from /\ fl'.got = fl.got /\ fl'.row = fl.row
              /\ fl'.todo = fl.todo \ {k}
              /\ fl'.at = "drop" => fl'.todo = {}
  <1>1. /\ fl.at = "retarget" /\ UNCHANGED <<undated, server, answers, local, op, sy, history, ops>>
    BY DEF _retargetPendingMutations
  <1>2. /\ fl.todo # {} /\ fl.todo \in SUBSET Nat /\ fl.todo \subseteq DOMAIN queue
    BY <1>1 DEF TypeOK, FlushOK
  <1>3. PICK k \in fl.todo : k = Min(fl.todo) /\ \A j \in fl.todo : k <= j
    BY <1>2, LeastIs
  <1>4. queue \in Seq(Mutations) /\ k \in DOMAIN queue /\ queue[k] \in Mutations
    BY <1>2, Indices DEF TypeOK, IsQueue
  <1> DEFINE version == IF queue[k].action = "create" THEN queue[k].version ELSE fl.row.version
  <1>5. /\ queue' = [queue EXCEPT ![k] = [queue[k] EXCEPT !.id = fl.got, !.version = version]]
        /\ fl' = [fl EXCEPT !.todo = @ \ {k}, !.at = IF fl.todo = {k} THEN "drop" ELSE @]
    BY <1>3, <1>4 DEF _retargetPendingMutations, Mutations
  <1>6. /\ DOMAIN queue' = DOMAIN queue /\ \A j \in DOMAIN queue : j # k => queue'[j] = queue[j]
        /\ queue'[k] = [queue[k] EXCEPT !.id = fl.got, !.version = version]
    BY <1>4, <1>5
  <1>7. Readdressed(queue[k], queue'[k], fl.got, version)
    BY <1>4, <1>6 DEF Readdressed, Mutations
  <1>8. /\ fl'.at \in {"retarget", "drop"} /\ fl'.from = fl.from /\ fl'.got = fl.got /\ fl'.row = fl.row
        /\ fl'.todo = fl.todo \ {k} /\ (fl'.at = "drop" => fl'.todo = {})
    BY <1>1, <1>5 DEF TypeOK, FlushOK
  <1> QED
    BY <1>1, <1>3, <1>4, <1>6, <1>7, <1>8

LEMMA RebaseDoes ==
  ASSUME TypeOK, _rebasePendingMutations
  PROVE  /\ fl.at = "rebase" /\ UNCHANGED <<undated, server, answers, local, op, sy, history, ops>>
         /\ DOMAIN queue' = DOMAIN queue
         /\ \E k \in fl.todo :
              /\ k \in DOMAIN queue
              /\ \A j \in DOMAIN queue : j # k => queue'[j] = queue[j]
              /\ Readdressed(queue[k], queue'[k], queue[k].id, fl.row.version)
              /\ fl'.at \in {"rebase", "put"} /\ fl'.got = fl.got /\ fl'.row = fl.row
              /\ fl'.todo = fl.todo \ {k}
  <1>1. /\ fl.at = "rebase" /\ UNCHANGED <<undated, server, answers, local, op, sy, history, ops>>
    BY DEF _rebasePendingMutations
  <1>2. /\ fl.todo # {} /\ fl.todo \in SUBSET Nat /\ fl.todo \subseteq DOMAIN queue
    BY <1>1 DEF TypeOK, FlushOK
  <1>3. PICK k \in fl.todo : k = Min(fl.todo)
    BY <1>2, LeastIsMember
  <1>4. queue \in Seq(Mutations) /\ k \in DOMAIN queue /\ queue[k] \in Mutations
    BY <1>2, Indices DEF TypeOK, IsQueue
  <1>5. /\ queue' = [queue EXCEPT ![k] = [queue[k] EXCEPT !.version = fl.row.version]]
        /\ fl' = [fl EXCEPT !.todo = @ \ {k}, !.at = IF fl.todo = {k} THEN "put" ELSE @]
    BY <1>3, <1>4 DEF _rebasePendingMutations
  <1>6. /\ DOMAIN queue' = DOMAIN queue /\ \A j \in DOMAIN queue : j # k => queue'[j] = queue[j]
        /\ queue'[k] = [queue[k] EXCEPT !.version = fl.row.version]
    BY <1>4, <1>5
  <1>7. Readdressed(queue[k], queue'[k], queue[k].id, fl.row.version)
    BY <1>4, <1>6 DEF Readdressed, Mutations
  <1>8. /\ fl'.at \in {"rebase", "put"} /\ fl'.got = fl.got /\ fl'.row = fl.row
        /\ fl'.todo = fl.todo \ {k}
    BY <1>1, <1>5 DEF TypeOK, FlushOK
  <1> QED
    BY <1>1, <1>3, <1>4, <1>6, <1>7, <1>8

LEMMA DeleteDoes ==
  ASSUME TypeOK, _deleteMutation
  PROVE  /\ fl.at = "pop" /\ fl' = [NoFlush EXCEPT !.at = "send"] /\ 1 \in DOMAIN queue
         /\ UNCHANGED <<undated, server, answers, local, op, sy, theirs, touched, doubled, resent, ops>>
         /\ mine' = IF queue[1].id < 0 /\ queue[1].action # "create" THEN Forget(mine, Thing(queue[1].id), Columns) ELSE mine
         /\ \A k \in DOMAIN queue' : k \in Nat \ {0} /\ k + 1 \in DOMAIN queue /\ queue'[k] = queue[k + 1]
         /\ \A k \in DOMAIN queue : k # 1 => k - 1 \in DOMAIN queue' /\ queue'[k - 1] = queue[k]
  <1>1. /\ fl.at = "pop" /\ fl' = [NoFlush EXCEPT !.at = "send"] /\ queue' = Tail(queue)
        /\ UNCHANGED <<undated, server, answers, local, op, sy, theirs, touched, doubled, resent, ops>>
        /\ mine' = IF Head(queue).id < 0 /\ Head(queue).action # "create" THEN Forget(mine, Thing(Head(queue).id), Columns) ELSE mine
    BY DEF _deleteMutation
  <1>2. queue # <<>> /\ queue \in Seq(Mutations)
    BY <1>1 DEF TypeOK, FlushOK, IsQueue
  <1>3. /\ Head(queue) = queue[1] /\ 1 \in DOMAIN queue
        /\ \A k \in DOMAIN queue' : k + 1 \in DOMAIN queue /\ queue'[k] = queue[k + 1]
    BY <1>1, <1>2, Popped
  <1>4. /\ Len(queue) \in Nat /\ DOMAIN queue = 1..Len(queue)
        /\ queue' \in Seq(Mutations) /\ Len(queue') = Len(queue) - 1 /\ DOMAIN queue' = 1..Len(queue')
    BY <1>1, <1>2, <1>3, HeadTailProperties, Indices
  <1>5. \A k \in DOMAIN queue : k # 1 => k - 1 \in DOMAIN queue'
    BY <1>4
  <1>6. \A k \in DOMAIN queue : k # 1 => (k - 1) + 1 = k
    BY <1>4
  <1>7. \A k \in DOMAIN queue : k # 1 => k - 1 \in DOMAIN queue' /\ queue'[k - 1] = queue[k]
    BY <1>3, <1>5, <1>6
  <1> QED
    BY <1>1, <1>3, <1>4, <1>7

LEMMA EnqueueDoes ==
  ASSUME TypeOK, _enqueue
  PROVE  LET t == Thing(op.id)
             m == queue'[Len(queue) + 1]
         IN  /\ op.at = "queue" /\ op' = NoOp
             /\ op.action \in Actions /\ op.row \in Rows /\ IsId(op.id) /\ op.base \in Rows /\ op.dirty \in SUBSET Columns
             /\ UNCHANGED <<undated, server, answers, local, fl, sy, theirs, touched, doubled, ops>>
             /\ DOMAIN queue' = DOMAIN queue \cup {Len(queue) + 1} /\ Len(queue) + 1 \notin DOMAIN queue
             /\ Len(queue) \in Nat /\ DOMAIN queue = 1..Len(queue)
             /\ \A k \in DOMAIN queue : queue'[k] = queue[k]
             /\ m.action = op.action /\ m.id = op.id /\ m.key = t /\ m.vals = op.row.vals
             /\ m.base = op.base.vals /\ m.version = op.row.version
             /\ m.dirty = IF op.action = "create" THEN {} ELSE op.dirty
             /\ resent' = IF op.action = "update" /\ (\E k \in PendingOf(t) : queue[k].action # "create")
                          THEN resent \cup {t} ELSE resent
  <1>1. /\ op.at = "queue" /\ op' = NoOp
        /\ UNCHANGED <<undated, server, answers, local, fl, sy, theirs, touched, doubled, ops>>
    BY DEF _enqueue
  <1>2. /\ op.action \in Actions /\ op.row \in Rows /\ IsId(op.id) /\ op.base \in Rows
        /\ op.dirty \in SUBSET Columns
    BY <1>1 DEF TypeOK, OpOK
  <1> DEFINE m == [action |-> op.action, id |-> op.id, key |-> Thing(op.id), vals |-> op.row.vals,
            base |-> op.base.vals, dirty |-> IF op.action = "create" THEN {} ELSE op.dirty,
            version |-> op.row.version]
  <1>3. queue' = Append(queue, m)
    BY DEF _enqueue
  <1>4. resent' = IF op.action = "update" /\ (\E k \in PendingOf(Thing(op.id)) : queue[k].action # "create")
                  THEN resent \cup {Thing(op.id)} ELSE resent
    BY DEF _enqueue
  <1>5. Thing(op.id) \in 0..ops /\ op.id \in Int
    BY <1>2, ThingIs DEF TypeOK
  <1>6. m \in Mutations
    BY <1>2, <1>5 DEF Mutations, Rows
  <1>7. /\ m.action = op.action /\ m.id = op.id /\ m.key = Thing(op.id) /\ m.vals = op.row.vals
        /\ m.base = op.base.vals /\ m.version = op.row.version
        /\ m.dirty = IF op.action = "create" THEN {} ELSE op.dirty
    OBVIOUS
  <1> HIDE DEF m
  <1>8. queue \in Seq(Mutations)
    BY DEF TypeOK, IsQueue
  <1>9. /\ DOMAIN queue' = DOMAIN queue \cup {Len(queue) + 1} /\ Len(queue) + 1 \notin DOMAIN queue
        /\ \A k \in DOMAIN queue : queue'[k] = queue[k]
        /\ queue'[Len(queue) + 1] = m
    BY <1>3, <1>6, <1>8, Appended
  <1>10. Len(queue) \in Nat /\ DOMAIN queue = 1..Len(queue)
    BY <1>8, Indices
  <1> QED
    BY <1>1, <1>2, <1>4, <1>7, <1>9, <1>10

LEMMA KeepDoes ==
  ASSUME TypeOK, KeepLocally
  PROVE  /\ op.at = "keep" /\ UNCHANGED <<server, answers, queue, fl, sy, touched, doubled, resent, ops>>
         /\ op.action \in Actions /\ op.row \in Rows /\ IsId(op.id)
         /\ \/ op' = NoOp /\ UNCHANGED <<local, mine, theirs>>
            \/ /\ op'.at = "queue" /\ op'.action = op.action /\ op'.id = op.id
               /\ op'.row.version = op.row.version /\ op'.base.vals \in AllVals /\ op'.row.vals \in AllVals
               /\ op'.row.vals["status"] = op'.base.vals["status"]
               /\ \A c \in Fields : op'.row.vals[c] = op.row.vals[c]
               /\ op.action = "update" => op.id \in DOMAIN local /\ op'.base = local[op.id]
               /\ op.action # "update" => op'.base = op.row /\ op'.row = op.row
               /\ op'.dirty = IF op.action = "update" THEN Changed(op'.base.vals, op'.row.vals) ELSE op.dirty
               /\ local' = With(local, op.id, op'.row)
               /\ mine' = Forget(mine, Thing(op.id), op'.dirty)
               /\ theirs' = Forget(theirs, Thing(op.id), op'.dirty)
  <1>1. op.at = "keep" /\ UNCHANGED <<server, answers, queue, fl, sy, touched, doubled, resent, ops>>
    BY DEF KeepLocally
  <1>2. op.action \in Actions /\ op.row \in Rows /\ IsId(op.id)
    BY <1>1 DEF TypeOK, OpOK
  <1>3. CASE op.action = "update" /\ op.id \notin getAllItems
    BY <1>1, <1>2, <1>3 DEF KeepLocally
  <1>4. CASE ~ (op.action = "update" /\ op.id \notin getAllItems)
    <2> DEFINE theBase == IF op.action = "update" THEN local[op.id] ELSE op.row
               theRow == [op.row EXCEPT !.vals["status"] = theBase.vals["status"]]
               theDirty == IF op.action = "update" THEN Changed(theBase.vals, theRow.vals) ELSE op.dirty
    <2>a. /\ op' = [op EXCEPT !.at = "queue", !.row = theRow, !.base = theBase, !.dirty = theDirty]
          /\ local' = With(local, op.id, theRow)
          /\ mine' = Forget(mine, Thing(op.id), theDirty)
          /\ theirs' = Forget(theirs, Thing(op.id), theDirty)
      BY <1>4 DEF KeepLocally
    <2>1. /\ theBase = IF op.action = "update" THEN local[op.id] ELSE op.row
          /\ theRow = [op.row EXCEPT !.vals["status"] = theBase.vals["status"]]
          /\ theDirty = IF op.action = "update" THEN Changed(theBase.vals, theRow.vals) ELSE op.dirty
      OBVIOUS
    <2> HIDE DEF theBase, theRow, theDirty
    <2>2. op.action = "update" => op.id \in DOMAIN local
      BY <1>4 DEF getAllItems
    <2>3. theBase \in Rows /\ theBase.vals \in AllVals
      BY <1>2, <2>1, <2>2 DEF TypeOK, IsTable, Rows
    <2>4. PICK s, vals : s = theBase.vals["status"] /\ vals = [op.row.vals EXCEPT !["status"] = s]
      OBVIOUS
    <2>5. /\ vals \in AllVals /\ vals["status"] = s /\ \A c \in Fields : vals[c] = op.row.vals[c]
          /\ op.action # "update" => vals = op.row.vals
      BY <1>2, <2>1, <2>3, <2>4, OfflineSyncAssumption DEF Rows, AllVals, Columns
    <2>6. theRow.vals = vals /\ theRow.version = op.row.version /\ (op.action # "update" => theRow = op.row)
      BY <1>2, <2>1, <2>4, <2>5 DEF Rows
    <2>b. op' = [at |-> "queue", action |-> op.action, id |-> op.id, row |-> theRow,
                 base |-> theBase, dirty |-> theDirty]
      BY <2>a DEF TypeOK, OpOK
    <2>7. /\ op'.at = "queue" /\ op'.action = op.action /\ op'.id = op.id
          /\ op'.row = theRow /\ op'.base = theBase /\ op'.dirty = theDirty
      BY <2>b
    <2>c. /\ local' = With(local, op.id, op'.row)
          /\ mine' = Forget(mine, Thing(op.id), op'.dirty)
          /\ theirs' = Forget(theirs, Thing(op.id), op'.dirty)
      BY <2>a, <2>7
    <2> QED
      BY <1>1, <1>2, <2>1, <2>2, <2>3, <2>4, <2>5, <2>6, <2>7, <2>c
  <1> QED
    BY <1>3, <1>4

LEMMA OthersDo ==
  ASSUME TypeOK, Others
  PROVE  /\ UNCHANGED <<undated, answers, local, queue, op, fl, sy, mine, doubled, resent, ops>>
         /\ \E i \in DOMAIN server, c \in Columns, v \in HistoryVals :
              /\ Alters(i, {c}, [d \in Columns |-> v])
              /\ touched' = touched \cup {<<server[i].thing, c>>}
              /\ theirs' = [theirs EXCEPT ![server[i].thing][c] =
                              IF BeingChanged(server[i].thing, c) THEN Null ELSE v]
  <1>1. PICK i \in DOMAIN server, c \in Columns, v \in HistoryVals : OtherChanges(i, c, v)
    BY DEF Others, Columns, HistoryVals
  <1> DEFINE vals == [server[i].vals EXCEPT ![c] = v]
             n == server[i].version + 1
             item == [[server[i] EXCEPT !.vals = vals] EXCEPT !.version = n]
  <1>2. /\ UNCHANGED <<undated, answers, local, queue, op, fl, sy, mine, doubled, resent, ops>>
        /\ touched' = touched \cup {<<server[i].thing, c>>}
        /\ theirs' = [theirs EXCEPT ![server[i].thing][c] =
                        IF BeingChanged(server[i].thing, c) THEN Null ELSE v]
        /\ server[i].vals["status"] # "gone"
        /\ server' = [server EXCEPT ![i] = item]
    BY <1>1 DEF OtherChanges
  <1>3. server[i] \in Items /\ server \in Seq(Items)
    BY ServerItem DEF TypeOK, ServerOK, Items
  <1>4. \A d \in Columns : vals[d] = IF d = c THEN v ELSE server[i].vals[d]
    BY <1>3 DEF Items, AllVals
  <1>5. n = server[i].version + 1
    OBVIOUS
  <1> HIDE DEF vals, n
  <1>6. item = [thing |-> server[i].thing, vals |-> vals, version |-> n]
    BY <1>3, ItemWith
  <1> HIDE DEF item
  <1>7. DOMAIN server' = DOMAIN server /\ \A j \in DOMAIN server : server'[j] = IF j = i THEN item ELSE server[j]
    BY <1>2
  <1>8. Alters(i, {c}, [d \in Columns |-> v])
    BY <1>2, <1>4, <1>5, <1>6, <1>7, SMTT(30) DEF Alters, ItemsKept
  <1> QED
    BY <1>2, <1>8

LEMMA LaterStep ==
  ASSUME TypeOK, [Next]_vars
  PROVE  Later
  <1>0. undated \subseteq undated'
    BY SendCreateDoes, SendChangeDoes, FlushCreateDoes, NotStoredDoes, ApplyDoes, OthersDo
       DEF Next, vars, createInventoryItem, updateItem, updateItemStatus, Begin, OpStep, FlushStep, SyncStep,
       _cacheItems, RevertStatus, KeepLocally, _enqueue, flushPendingMutations, FlushedAll, _retargetPendingMutations,
       DropLocal, RefuseCreate, _fetchServerItem, _rebasePendingMutations, PutSynced, _deleteMutation,
       syncInventoryItems, SeePending, GetItems, clearAll, _replaceCache, Connect, Disconnect, cleanupOrphanedItems
  <1>1. CASE server' = server
    BY <1>0, <1>1, LaterSame
  <1>2. CASE SendCreate
    BY <1>0, <1>2, SendCreateDoes, LaterMade, LaterSame
  <1>3. CASE SendChange
    BY <1>0, <1>3, SendChangeDoes, LaterAltered, LaterSame DEF TypeOK
  <1>4. CASE FlushCreate \/ AnswerNotStored
    BY <1>0, <1>4, FlushCreateDoes, NotStoredDoes, LaterMade, LaterSame
  <1>5. CASE _applyWithConflictResolution
    BY <1>0, <1>5, ApplyDoes, LaterAltered, LaterSame DEF TypeOK
  <1>6. CASE Others
    BY <1>0, <1>6, OthersDo, LaterAltered DEF TypeOK
  <1>7. CASE createInventoryItem \/ updateItem \/ updateItemStatus
    BY <1>1, <1>7 DEF createInventoryItem, updateItem, updateItemStatus, Begin
  <1> QED
    BY <1>1, <1>2, <1>3, <1>4, <1>5, <1>6, <1>7 DEF Next, vars, OpStep, FlushStep, SyncStep, _cacheItems, RevertStatus,
       KeepLocally, _enqueue, flushPendingMutations, FlushedAll, _retargetPendingMutations, DropLocal,
       RefuseCreate, _fetchServerItem, _rebasePendingMutations, PutSynced, _deleteMutation, syncInventoryItems, SeePending,
       GetItems, clearAll, _replaceCache, Connect, Disconnect, cleanupOrphanedItems

LEMMA VariesRow ==
  ASSUME TypeOK, NEW i \in DOMAIN local, NEW f \in Columns, NEW v
  PROVE  Varies([local[i] EXCEPT !.vals[f] = v], local[i], f, v)
  <1>1. local[i] \in Rows
    BY DEF TypeOK, IsTable
  <1>2. [local[i] EXCEPT !.vals[f] = v] = [vals |-> [local[i].vals EXCEPT ![f] = v], version |-> local[i].version]
    BY <1>1 DEF Rows
  <1>3. local[i].vals \in AllVals
    BY <1>1 DEF Rows
  <1>4. PICK vals : vals = [local[i].vals EXCEPT ![f] = v]
    OBVIOUS
  <1>5. \A c \in Columns : vals[c] = IF c = f THEN v ELSE local[i].vals[c]
    BY <1>3, <1>4 DEF AllVals
  <1> QED
    BY <1>2, <1>4, <1>5 DEF Varies

LEMMA BeginDoes ==
  ASSUME TypeOK, createInventoryItem \/ updateItem \/ updateItemStatus
  PROVE  /\ op.at = "idle" /\ ops' = ops + 1
         /\ UNCHANGED <<undated, server, answers, queue, online, fl, sy, touched, doubled, resent>>
         /\ op'.at = "send" /\ op'.dirty \subseteq Columns
         /\ LET t == IF op'.action = "create" THEN ops + 1 ELSE Thing(op'.id)
            IN  mine' = Forget(mine, t, op'.dirty) /\ theirs' = Forget(theirs, t, op'.dirty)
         /\ \/ /\ op'.action = "create" /\ op'.id = - (ops + 1) /\ op'.row = Row(first, 1)
               /\ op'.dirty = Columns /\ local' = local
            \/ /\ op'.action = "update" /\ op'.id \in DOMAIN local /\ local' = local
               /\ \E f \in Fields, v \in Values : op'.dirty = {f} /\ Varies(op'.row, local[op'.id], f, v)
            \/ /\ op'.action = "status_update" /\ op'.id \in DOMAIN local /\ op'.dirty = {"status"}
               /\ local' = [local EXCEPT ![op'.id] = op'.row]
               /\ op'.base = local[op'.id]
               /\ \E s \in {"frozen", "used"} : Varies(op'.row, local[op'.id], "status", s)
  <1>1. CASE createInventoryItem
    BY <1>1 DEF createInventoryItem, Begin, offline_id
  <1>2. CASE updateItem
    <2>1. PICK i \in getAllItems, f \in Fields, v \in Values :
            Begin("update", i, Thing(i), [local[i] EXCEPT !.vals[f] = v], Null, {f}) /\ local' = local
      BY <1>2 DEF updateItem
    <2>2. i \in DOMAIN local
      BY DEF getAllItems
    <2>3. op' = [at |-> "send", action |-> "update", id |-> i, row |-> [local[i] EXCEPT !.vals[f] = v],
                 base |-> Null, dirty |-> {f}]
      BY <2>1 DEF Begin
    <2>4. op'.at = "send" /\ op'.action = "update" /\ op'.id = i /\ op'.dirty = {f}
          /\ op'.row = [local[i] EXCEPT !.vals[f] = v]
      BY <2>3
    <2>v. Varies(op'.row, local[i], f, v)
      <3>1. Varies([local[i] EXCEPT !.vals[f] = v], local[i], f, v)
        BY <2>2, VariesRow DEF Columns
      <3> QED
        BY <2>4, <3>1
    <2>5. /\ op.at = "idle" /\ ops' = ops + 1
          /\ UNCHANGED <<undated, server, answers, queue, online, fl, sy, touched, doubled, resent>>
          /\ mine' = Forget(mine, Thing(i), {f}) /\ theirs' = Forget(theirs, Thing(i), {f})
      BY <2>1 DEF Begin
    <2> QED
      BY <2>1, <2>2, <2>4, <2>v, <2>5 DEF Columns
  <1>3. CASE updateItemStatus
    <2>1. PICK i \in getAllItems, s \in {"frozen", "used"} :
            LET row == [local[i] EXCEPT !.vals["status"] = s]
            IN  /\ local' = [local EXCEPT ![i] = row]
                /\ Begin("status_update", i, Thing(i), row, local[i], {"status"})
      BY <1>3 DEF updateItemStatus
    <2>2. i \in DOMAIN local
      BY DEF getAllItems
    <2>3. op' = [at |-> "send", action |-> "status_update", id |-> i, row |-> [local[i] EXCEPT !.vals["status"] = s],
                 base |-> local[i], dirty |-> {"status"}]
      BY <2>1 DEF Begin
    <2>4. op'.at = "send" /\ op'.action = "status_update" /\ op'.id = i /\ op'.dirty = {"status"}
          /\ op'.row = [local[i] EXCEPT !.vals["status"] = s] /\ op'.base = local[i]
      BY <2>3
    <2>v. Varies(op'.row, local[i], "status", s)
      <3>1. Varies([local[i] EXCEPT !.vals["status"] = s], local[i], "status", s)
        BY <2>2, VariesRow DEF Columns
      <3> QED
        BY <2>4, <3>1
    <2>5. /\ op.at = "idle" /\ ops' = ops + 1
          /\ UNCHANGED <<undated, server, answers, queue, online, fl, sy, touched, doubled, resent>>
          /\ mine' = Forget(mine, Thing(i), {"status"}) /\ theirs' = Forget(theirs, Thing(i), {"status"})
      BY <2>1 DEF Begin
    <2> QED
      BY <2>1, <2>2, <2>4, <2>v, <2>5 DEF Columns
  <1> QED
    BY <1>1, <1>2, <1>3

----------------------------------------
(* Creations.                                                              *)
LEMMA NothingMade ==
  ASSUME CreationsOK, ItemsKept, Pending' \subseteq Pending, CallKept, undated' = undated,
         DOMAIN answers \subseteq DOMAIN answers', doubled \subseteq doubled'
  PROVE  CreationsOK'
  <1>1. Made' = Made /\ MadeOnce'
    BY DEF Made, ItemsKept, MadeOnce, CreationsOK
  <1>2. Pending' \cap Made' \subseteq DOMAIN answers' \cup doubled' /\ undated' \cap Made' \subseteq doubled'
    BY <1>1 DEF CreationsOK, CreationsInv, UndatedInv
  <1>3. ASSUME Creating'
        PROVE  /\ - op'.id \notin Pending' /\ - op'.id \notin Made' \ doubled'
               /\ op'.at # "queue" => - op'.id \notin undated'
    BY <1>1, <1>3 DEF CallKept, CreationsOK, CreationsInv, UndatedInv, Creating
  <1> QED
    BY <1>1, <1>2, <1>3 DEF CreationsOK, CreationsInv, UndatedInv, Creating

(* Of a creation there is an item: the only one of its thing, if there was *)
(* none.                                                                   *)
LEMMA OneMade ==
  ASSUME MadeOnce, NEW n, NEW t, NEW vals, Makes(n, t, vals), doubled \subseteq doubled', t \in doubled' \/ t \notin Made
  PROVE  MadeOnce' /\ Made' = Made \cup {t}
  <1>1. server'[n].thing = t
    BY DEF Makes, Created
  <1> QED
    BY <1>1 DEF Makes, MadeOnce, Made

LEMMA CreationsInit == Init => CreationsOK
  BY DEF Init, CreationsOK, MadeOnce, CreationsInv, UndatedInv, Pending, Creating, NoOp

(* What a call begins: the thing is one nobody has named before.           *)
LEMMA BeginCreations ==
  ASSUME TypeOK, CreationsOK, createInventoryItem \/ updateItem \/ updateItemStatus
  PROVE  CreationsOK'
  <1>1. UNCHANGED <<server, answers, queue, undated, doubled>>
    BY BeginDoes
  <1>2. CASE op'.action = "create"
    <2>1. op'.id = - (ops + 1) /\ ops \in Nat
      BY <1>2, BeginDoes, OfflineSyncAssumption DEF TypeOK, ServerOK
    <2>2. - op'.id \notin 0..ops
      BY <2>1
    <2>3. Made \subseteq 0..ops /\ undated \subseteq 0..ops
      BY <2>1, ServerItem DEF TypeOK, Made
    <2>4. \A k \in DOMAIN queue : queue[k] \in Mutations
      BY Indices DEF TypeOK, IsQueue
    <2>5. Pending \subseteq 0..ops
      BY <2>4 DEF Mutations, Pending
    <2>6. Made' = Made /\ Pending' = Pending /\ MadeOnce'
      BY <1>1 DEF CreationsOK, MadeOnce, Made, Pending
    <2> QED
      BY <1>1, <2>2, <2>3, <2>5, <2>6 DEF CreationsOK, CreationsInv, UndatedInv
  <1>3. CASE op'.action # "create"
    BY <1>1, <1>3, NothingMade DEF Pending, CallKept, Creating, ItemsKept
  <1> QED
    BY <1>2, <1>3

LEMMA SendCreateCreations ==
  ASSUME TypeOK, CreationsOK, SendCreate
  PROVE  CreationsOK'
  <1>1. PICK t : t = - op.id
    OBVIOUS
  <1>a. /\ op.at = "send" /\ op.action = "create" /\ UNCHANGED <<queue, answers, undated>> /\ doubled \subseteq doubled'
        /\ (\E n, row : op' = [op EXCEPT !.at = "cache", !.id = n, !.row = row]) \/ op' = [op EXCEPT !.at = "keep"]
    BY SendCreateDoes DEF NextOp
  <1>b. Creating' => op'.id = op.id
    BY <1>a DEF Creating, TypeOK, OpOK
  <1>2. Creating /\ Pending' = Pending
    BY <1>a DEF Creating, Pending
  <1>3. t \notin Pending \cup undated /\ t \notin Made \ doubled
    BY <1>1, <1>a, <1>2 DEF CreationsOK, CreationsInv, UndatedInv, Creating
  <1>4. CASE server' = server
    BY <1>a, <1>b, <1>2, <1>4, NothingMade DEF CallKept, ItemsKept
  <1>5. CASE server' # server
    <2>1. PICK n, vals : Makes(n, t, vals) /\ (~ Creating' \/ t \in doubled')
      BY <1>1, <1>5, SendCreateDoes DEF TypeOK, OpOK, Creating
    <2>2. MadeOnce' /\ Made' = Made \cup {t}
      BY <1>a, <1>3, <2>1, OneMade DEF CreationsOK
    <2> QED
      BY <1>1, <1>a, <1>b, <1>2, <1>3, <2>1, <2>2 DEF CreationsOK, CreationsInv, UndatedInv, Creating
  <1> QED
    BY <1>4, <1>5

LEMMA FlushCreateCreations ==
  ASSUME TypeOK, CreationsOK, FlushCreate \/ AnswerNotStored
  PROVE  CreationsOK'
  <1>1. PICK t : t = queue[1].key
    OBVIOUS
  <1>2. /\ 1 \in DOMAIN queue /\ queue[1].action = "create" /\ t \notin undated
        /\ UNCHANGED <<queue, op, undated>> /\ doubled \subseteq doubled' /\ DOMAIN answers \subseteq DOMAIN answers'
    BY <1>1, FlushCreateDoes, NotStoredDoes DEF With
  <1>3. t \in Pending /\ Pending' = Pending /\ (Creating' <=> Creating)
    BY <1>1, <1>2 DEF Pending, Creating
  <1>4. CASE server' = server
    BY <1>2, <1>3, <1>4, NothingMade DEF CallKept, ItemsKept
  <1>5. CASE server' # server
    <2>1. PICK n, vals : Makes(n, t, vals) /\ t \notin DOMAIN answers /\ t \in DOMAIN answers' \cup doubled'
      BY <1>1, <1>5, FlushCreateDoes, NotStoredDoes DEF With
    <2>2. t \in doubled \/ t \notin Made
      BY <1>3, <2>1 DEF CreationsOK, CreationsInv
    <2>3. MadeOnce' /\ Made' = Made \cup {t}
      BY <1>2, <2>1, <2>2, OneMade DEF CreationsOK
    <2> QED
      BY <1>2, <1>3, <2>1, <2>3 DEF CreationsOK, CreationsInv, UndatedInv
  <1> QED
    BY <1>4, <1>5

LEMMA EnqueueCreations ==
  ASSUME TypeOK, CreationsOK, _enqueue
  PROVE  CreationsOK' /\ Pending \subseteq Pending'
  <1>1. /\ op.at = "queue" /\ ~ Creating' /\ UNCHANGED <<server, answers, undated, doubled>>
        /\ \A k \in DOMAIN queue : k \in DOMAIN queue' /\ queue'[k] = queue[k]
        /\ Pending' \subseteq Pending \cup (IF op.action = "create" THEN {Thing(op.id)} ELSE {})
    BY EnqueueDoes DEF Pending, Creating, NoOp
  <1>2. op.id \in Int /\ op.id < 0 /\ Creating => Thing(op.id) = - op.id
    BY DEF Thing
  <1>3. op.action = "create" => Creating /\ - op.id \in 1..ops
    BY <1>1 DEF TypeOK, OpOK, Creating
  <1>4. op.action = "create" => Thing(op.id) \notin Made \ doubled
    BY <1>2, <1>3, OfflineSyncAssumption DEF CreationsOK, CreationsInv, TypeOK, OpOK, ServerOK
  <1>5. Made' = Made /\ MadeOnce' /\ Pending \subseteq Pending'
    BY <1>1 DEF Made, MadeOnce, CreationsOK, Pending
  <1> QED
    BY <1>1, <1>4, <1>5 DEF CreationsOK, CreationsInv, UndatedInv, Creating

(* The queue's creations keep their keys.                                  *)
LEMMA KeysKept ==
  ASSUME TypeOK
  PROVE  /\ _retargetPendingMutations \/ _rebasePendingMutations => Pending' = Pending
         /\ _deleteMutation => /\ Pending' \subseteq Pending
                               /\ \A t \in Pending \ Pending' : queue[1].action = "create" /\ t = queue[1].key
  <1>1. ASSUME _retargetPendingMutations \/ _rebasePendingMutations PROVE Pending' = Pending
    <2>1. /\ DOMAIN queue' = DOMAIN queue
          /\ \A j \in DOMAIN queue : queue'[j].key = queue[j].key /\ queue'[j].action = queue[j].action
      BY <1>1, RetargetDoes, RebaseDoes DEF Readdressed
    <2> QED
      BY <2>1 DEF Pending
  <1>2. ASSUME _deleteMutation
        PROVE  /\ Pending' \subseteq Pending
               /\ \A t \in Pending \ Pending' : queue[1].action = "create" /\ t = queue[1].key
    BY <1>2, DeleteDoes DEF Pending
  <1> QED
    BY <1>1, <1>2

LEMMA CreationsStep ==
  ASSUME TypeOK, CreationsOK, [Next]_vars
  PROVE  CreationsOK'
  <1>1. CASE createInventoryItem \/ updateItem \/ updateItemStatus
    BY <1>1, BeginCreations
  <1>2. CASE SendCreate
    BY <1>2, SendCreateCreations
  <1>3. CASE SendChange
    <2>1. ItemsKept /\ UNCHANGED <<answers, queue, doubled, undated>>
      BY <1>3, SendChangeTypes DEF SendChange
    <2>2. ~ Creating'
      <3>1. /\ op.action # "create" /\ DOMAIN op = {"at", "action", "id", "row", "base", "dirty"}
            /\ \/ op' = NoOp \/ \E at : op' = [op EXCEPT !.at = at]
               \/ \E row : op' = [op EXCEPT !.at = "cache", !.row = row]
        BY <1>3 DEF SendChange, AfterNoAnswer, NextOp, TypeOK, OpOK
      <3>2. CASE op' = NoOp
        BY <3>2 DEF Creating, NoOp
      <3>3. CASE \E at : op' = [op EXCEPT !.at = at]
        BY <3>1, <3>3 DEF Creating
      <3>4. CASE \E row : op' = [op EXCEPT !.at = "cache", !.row = row]
        BY <3>1, <3>4 DEF Creating
      <3> QED
        BY <3>1, <3>2, <3>3, <3>4
    <2> QED
      BY <2>1, <2>2, NothingMade DEF Pending, CallKept
  <1>4. CASE KeepLocally
    <2>1. PICK t : t = Thing(op.id) /\ (undated' = undated \/ (op.action = "create" /\ undated' = undated \cup {t}))
      BY <1>4 DEF KeepLocally
    <2>2. /\ UNCHANGED <<server, answers, queue, doubled>> /\ op.at = "keep" /\ op'.at \in {"idle", "queue"}
          /\ Creating' => Creating /\ op'.id = op.id
      BY <1>4, KeepDoes DEF Creating, NoOp
    <2>3. op.action = "create" => t = - op.id
      <3>1. op.id \in Int /\ ops \in Nat /\ (op.action = "create" => - op.id \in 1..ops)
        BY <2>2, OfflineSyncAssumption DEF TypeOK, ServerOK, OpOK
      <3> QED
        BY <2>1, <3>1 DEF Thing
    <2>4. op.action = "create" => - op.id \notin Made \ doubled
      BY <2>2 DEF CreationsOK, CreationsInv, Creating
    <2> QED
      BY <2>1, <2>2, <2>3, <2>4 DEF CreationsOK, MadeOnce, CreationsInv, UndatedInv, Creating, Made, Pending
  <1>5. CASE _enqueue
    BY <1>5, EnqueueCreations
  <1>6. CASE FlushCreate \/ AnswerNotStored
    BY <1>6, FlushCreateCreations
  <1>7. CASE _retargetPendingMutations \/ _rebasePendingMutations \/ _deleteMutation
    <2>1. UNCHANGED <<server, answers, op, doubled, undated>> /\ Pending' \subseteq Pending
      BY <1>7, KeysKept DEF _retargetPendingMutations, _rebasePendingMutations, _deleteMutation, history
    <2> QED
      BY <2>1, NothingMade DEF CallKept, Creating, ItemsKept
  <1>8. CASE _applyWithConflictResolution \/ Others
    <2>1. ItemsKept
      BY <1>8, ApplyTypes, OtherTypes, SMTT(30)
    <2>2. UNCHANGED <<answers, queue, op, doubled, undated>>
      BY <1>8 DEF _applyWithConflictResolution, Others, OtherChanges, history
    <2> QED
      BY <2>1, <2>2, NothingMade DEF Pending, CallKept, Creating
  <1>9. CASE UNCHANGED <<server, answers, queue, doubled, undated>> /\ (op' = op \/ op' = NoOp)
    BY <1>9, NothingMade DEF Pending, CallKept, Creating, ItemsKept, NoOp
  <1> QED
    BY <1>1, <1>2, <1>3, <1>4, <1>5, <1>6, <1>7, <1>8, <1>9 DEF Next, OpStep, FlushStep, SyncStep, vars, history,
       _cacheItems, RevertStatus, flushPendingMutations, FlushedAll, RefuseCreate, DropLocal, _fetchServerItem, PutSynced,
       syncInventoryItems, SeePending, GetItems, clearAll, _replaceCache, Connect, Disconnect, cleanupOrphanedItems

LEMMA MadeOnceIsOne ==
  ASSUME MadeOnce PROVE CreatedOnce
  <1> SUFFICES ASSUME NEW t \in Things \ doubled
               PROVE  Cardinality({i \in DOMAIN server : server[i].thing = t}) <= 1
    BY DEF CreatedOnce
  <1> DEFINE S == {i \in DOMAIN server : server[i].thing = t}
  <1>1. \A i, j \in S : i = j
    BY DEF MadeOnce
  <1>2. CASE S = {}
    BY <1>2, FS_EmptySet
  <1>3. CASE S # {}
    <2>1. PICK i \in S : TRUE
      BY <1>3
    <2>2. S = {i}
      BY <1>1, <2>1
    <2>3. Cardinality({i}) = 1
      BY FS_Singleton
    <2> QED
      BY <2>2, <2>3
  <1> QED
    BY <1>2, <1>3

(* Each creation makes one item, however often the app ends in the middle  *)
(* of a flush and sends it again, unless the item is made and its answer   *)
(* lost before there is one under the key of the next attempt: at the      *)
(* first, or when the server fails between its commit and its answer.      *)
THEOREM CreatedOnceHolds == Spec => []CreatedOnce
  <1>1. Init => TypeOK /\ CreationsOK
    BY TypesInit, CreationsInit
  <1>2. TypeOK /\ CreationsOK /\ [Next]_vars => (TypeOK /\ CreationsOK)'
    BY TypesStep, CreationsStep
  <1>3. CreationsOK => CreatedOnce
    BY MadeOnceIsOne DEF CreationsOK
  <1> QED
    BY <1>1, <1>2, <1>3, PTL DEF Spec

----------------------------------------
(* Rows that are never ahead of the server stay so.                        *)
LEMMA LaterItem ==
  ASSUME ServerOK'
  PROVE  \A i \in DOMAIN server' : server'[i].version \in Nat \ {0} /\ i \in Nat \ {0}
  <1>1. server' \in Seq(Items')
    BY DEF ServerOK, Items
  <1>2. DOMAIN server' = 1..Len(server') /\ Len(server') \in Nat /\ \A i \in DOMAIN server' : server'[i] \in Items'
    BY <1>1, Indices
  <1> QED
    BY <1>2 DEF Items

LEMMA StillHonest ==
  ASSUME ServerOK, ServerOK', Later
  PROVE  /\ \A i, row : Honest(i, row) => Honest(i, row)'
         /\ \A i, row : IsId(i) /\ NotAhead(i, row) => NotAhead(i, row)'
         /\ \A i : IsId(i) => Thing(i)' = Thing(i)
  <1>1. \A i \in DOMAIN server : server[i].version \in Nat \ {0} /\ i \in Nat \ {0}
    BY ServerItem
  <1>2. \A i \in DOMAIN server' : server'[i].version \in Nat \ {0} /\ i \in Nat \ {0}
    BY LaterItem
  <1>3. ASSUME NEW i, NEW row, Honest(i, row) PROVE Honest(i, row)'
    BY <1>1, <1>2, <1>3 DEF Honest, Fresh, Later
  <1>4. ASSUME NEW i, NEW row, IsId(i), NotAhead(i, row) PROVE NotAhead(i, row)'
    <2>1. CASE i \in DOMAIN server
      BY <1>1, <1>2, <1>4, <2>1 DEF NotAhead, Later
    <2>2. CASE i \notin DOMAIN server
      <3>1. i < 0
        BY <1>4, <2>2, ThingIs
      <3>2. i \notin DOMAIN server'
        BY <1>2, <3>1
      <3> QED
        BY <1>4, <2>2, <3>2 DEF NotAhead
    <2> QED
      BY <2>1, <2>2
  <1>5. ASSUME NEW i, IsId(i) PROVE Thing(i)' = Thing(i)
    <2>1. i \in Int /\ (i < 0 \/ i \in DOMAIN server)
      BY <1>5, ThingIs
    <2>2. CASE i \in DOMAIN server
      BY <1>1, <2>2 DEF Thing, Later
    <2>3. CASE i < 0
      BY <2>3 DEF Thing
    <2> QED
      BY <2>1, <2>2, <2>3
  <1> QED
    BY <1>3, <1>4, <1>5

LEMMA SyncInvInit ==
  ASSUME Init PROVE SyncInv
  <1>1. NotAhead(1, local[1]) /\ DOMAIN local = {1}
    BY DEF Init, NotAhead, Row
  <1>2. OpInv
    BY DEF Init, OpInv, NoOp, Calling
  <1>3. RowsInv
    BY <1>1 DEF Init, RowsInv, NoSync
  <1>4. AnswersInv /\ QueueInv /\ ResentInv
    BY DEF Init, AnswersInv, QueueInv, ResentInv
  <1>5. FlushInv
    BY DEF Init, FlushInv, NoFlush
  <1> QED
    BY <1>2, <1>3, <1>4, <1>5 DEF SyncInv

(* What a step leaves alone keeps what is known of it.                     *)
LEMMA KeptInv ==
  ASSUME TypeOK, TypeOK', SyncInv, Later
  PROVE  /\ UNCHANGED op \/ op' = NoOp => OpInv'
         /\ UNCHANGED local => \A i \in DOMAIN local' : NotAhead(i, local[i])'
         /\ UNCHANGED sy \/ sy' = NoSync => /\ \A i \in DOMAIN sy.snapshot' : NotAhead(i, sy.snapshot[i])'
                                            /\ \A i \in DOMAIN sy.remote' : Honest(i, sy.remote[i])'
         /\ UNCHANGED answers => AnswersInv'
         /\ UNCHANGED queue => QueueInv' /\ (resent \subseteq resent' => ResentInv')
         /\ UNCHANGED <<fl, queue>> \/ FlushOff => FlushInv'
  <1>1. /\ \A i, row : Honest(i, row) => Honest(i, row)'
        /\ \A i, row : IsId(i) /\ NotAhead(i, row) => NotAhead(i, row)'
        /\ \A i : IsId(i) => Thing(i)' = Thing(i)
    BY StillHonest DEF TypeOK
  <1>2. UNCHANGED op \/ op' = NoOp => OpInv'
    <2>1. CASE UNCHANGED op
      <3>1. Calling => IsId(op.id)
        BY DEF TypeOK, OpOK, Calling
      <3> QED
        BY <1>1, <2>1, <3>1 DEF SyncInv, OpInv, Calling
    <2>2. CASE op' = NoOp
      BY <2>2 DEF OpInv, NoOp, Calling
    <2> QED
      BY <2>1, <2>2
  <1>3. UNCHANGED local => \A i \in DOMAIN local' : NotAhead(i, local[i])'
    BY <1>1 DEF SyncInv, RowsInv, TypeOK, IsTable
  <1>4. UNCHANGED sy \/ sy' = NoSync => /\ \A i \in DOMAIN sy.snapshot' : NotAhead(i, sy.snapshot[i])'
                                        /\ \A i \in DOMAIN sy.remote' : Honest(i, sy.remote[i])'
    <2>1. CASE UNCHANGED sy
      <3>1. \A i \in DOMAIN sy.snapshot : IsId(i)
        BY DEF TypeOK, SyncOK, IsTable
      <3> QED
        BY <1>1, <2>1, <3>1 DEF SyncInv, RowsInv
    <2>2. CASE sy' = NoSync
      BY <2>2 DEF NoSync
    <2> QED
      BY <2>1, <2>2
  <1>5. UNCHANGED answers => AnswersInv'
    BY <1>1 DEF SyncInv, AnswersInv, Later, Honest
  <1>6. ASSUME UNCHANGED queue PROVE QueueInv' /\ (resent \subseteq resent' => ResentInv')
    <2>1. \A k \in DOMAIN queue : IsId(queue[k].id) /\ Thing(queue[k].id)' = Thing(queue[k].id)
      BY <1>6, <1>1 DEF TypeOK, IsQueue
    <2>2. \A k \in DOMAIN queue : MutationOK(queue[k])'
      BY <1>6, <1>1, <2>1 DEF SyncInv, QueueInv, MutationOK
    <2> QED
      BY <1>6, <2>1, <2>2 DEF SyncInv, QueueInv, ResentInv
  <1>7. UNCHANGED <<fl, queue>> \/ FlushOff => FlushInv'
    <2>1. CASE UNCHANGED <<fl, queue>>
      <3>1. /\ fl.at = "retarget" => IsId(fl.from) /\ fl.got \in DOMAIN server
            /\ fl.at \in {"fetch", "resend"} => queue[1].id \in DOMAIN server /\ queue[1] \in Mutations
        <4>1. fl.at = "retarget" => fl.todo # {} /\ fl.todo \subseteq DOMAIN queue /\ \A k \in fl.todo : queue[k].id = fl.from
          BY DEF TypeOK, FlushOK, SyncInv, FlushInv
        <4>2. \A k \in DOMAIN queue : IsId(queue[k].id)
          BY DEF TypeOK, IsQueue
        <4>3. fl.at \in {"fetch", "resend"} => queue # <<>>
          BY DEF TypeOK, FlushOK
        <4>4. queue # <<>> => queue[1] \in Mutations
          BY HeadIs DEF TypeOK
        <4> QED
          BY <4>1, <4>2, <4>3, <4>4 DEF TypeOK, FlushOK, SyncInv, FlushInv
      <3>2. \A i \in DOMAIN server : i \in DOMAIN server' /\ server'[i].thing = server[i].thing
        BY DEF Later
      <3>3. \A i \in DOMAIN server : server[i].version <= server'[i].version /\ server[i].version \in Nat /\ server'[i].version \in Nat
        <4>1. \A i \in DOMAIN server : server[i].version \in Nat
          BY ServerItem DEF TypeOK
        <4>2. \A i \in DOMAIN server : server'[i].version \in Nat
          BY <3>2, LaterItem DEF TypeOK
        <4> QED
          BY <4>1, <4>2 DEF Later
      <3>4. fl.at \in {"fetch", "resend"} => queue[1].version < server'[queue[1].id].version
        <4>1. fl.at \in {"fetch", "resend"} => queue[1].version < server[queue[1].id].version
          BY DEF SyncInv, FlushInv
        <4> QED
          BY <3>1, <3>3, <4>1 DEF Mutations
      <3>5. Honest(fl.got, fl.row) => Honest(fl.got, fl.row)'
        BY <1>1, <2>1
      <3>6. fl.at = "resend" => Honest(queue[1].id, fl.row)'
        BY <1>1, <2>1 DEF SyncInv, FlushInv
      <3>7. fl.at = "retarget" => Thing(fl.from)' = server'[fl.got].thing
        BY <1>1, <2>1, <3>1, <3>2 DEF SyncInv, FlushInv
      <3>8. /\ fl.at \in {"retarget", "drop", "put", "rebase"} => Honest(fl.got, fl.row)'
            /\ fl.at \in {"retarget", "drop"} => queue[1].action = "create" /\ fl.row.version = 1
            /\ fl.at = "retarget" => /\ Thing(fl.from)' = server'[fl.got].thing
                                     /\ 1 \in fl.todo \/ queue[1].id = fl.got
                                     /\ \A k \in fl.todo : queue[k].id = fl.from
            /\ fl.at \in {"drop", "put", "rebase"} => queue[1].id = fl.got
            /\ fl.at = "rebase" => /\ queue[1].action # "create"
                                   /\ \A k \in fl.todo : queue[k].id = fl.got /\ queue[k].action # "create"
        BY <3>5, <3>7 DEF SyncInv, FlushInv
      <3>9. /\ fl.at \in {"fetch", "resend"} => /\ queue[1].action # "create" /\ queue[1].id \in DOMAIN server'
                                                /\ queue[1].version < server'[queue[1].id].version
            /\ fl.at = "resend" => Honest(queue[1].id, fl.row)'
            /\ fl.at = "pop" /\ queue[1].action = "create" => queue[1].id \in DOMAIN server' \/ queue[1].key \in undated'
        BY <3>2, <3>4, <3>6 DEF SyncInv, FlushInv, Later
      <3> QED
        BY <2>1, <3>8, <3>9 DEF FlushInv
    <2>2. CASE FlushOff
      BY <2>2 DEF FlushOff, NoFlush, FlushInv
    <2> QED
      BY <2>1, <2>2
  <1> QED
    BY <1>2, <1>3, <1>4, <1>5, <1>6, <1>7

----------------------------------------
(* What is known of the user's call.                                       *)
LEMMA BeginOp ==
  ASSUME TypeOK, TypeOK', SyncInv, createInventoryItem \/ updateItem \/ updateItemStatus
  PROVE  OpInv'
  <1>1. CASE op'.action = "create"
    <2>1. op'.id < 0 /\ op'.row = Row(first, 1) /\ op'.dirty = Columns /\ op'.at = "send" /\ server' = server
      <3>1. op'.id = - (ops + 1) /\ op'.row = Row(first, 1) /\ op'.dirty = Columns /\ op'.at = "send" /\ server' = server
        BY <1>1, BeginDoes
      <3>2. ops \in Nat
        BY OfflineSyncAssumption DEF TypeOK, ServerOK
      <3> QED
        BY <3>1, <3>2
    <2>2. op'.id \notin DOMAIN server
      BY <2>1, ServerItem DEF TypeOK
    <2>3. first["status"] = "active"
      BY DEF first, Columns
    <2> QED
      BY <1>1, <2>1, <2>2, <2>3 DEF OpInv, Calling, NotAhead, Row
  <1>2. CASE op'.action # "create"
    <2>1. /\ op'.at = "send" /\ server' = server /\ op'.id \in DOMAIN local
          /\ \/ op'.action = "update" /\ op'.dirty \subseteq Fields
             \/ op'.action = "status_update" /\ op'.dirty = {"status"}
          /\ op'.row.version = local[op'.id].version
      BY <1>2, BeginDoes DEF Varies
    <2>3. NotAhead(op'.id, local[op'.id])
      BY <2>1 DEF SyncInv, RowsInv
    <2> QED
      BY <1>2, <2>1, <2>3 DEF OpInv, Calling, NotAhead
  <1> QED
    BY <1>1, <1>2

LEMMA SendCreateOp ==
  ASSUME TypeOK, TypeOK', SyncInv, Later, SendCreate
  PROVE  OpInv'
  <1>1. /\ op.at = "send" /\ op.action = "create" /\ op.row \in Rows /\ IsId(op.id)
    BY DEF SendCreate, TypeOK, OpOK
  <1>2. \/ \E n : /\ Makes(n, - op.id, op.row.vals)
                  /\ op' = [op EXCEPT !.at = "cache", !.id = n, !.row = Row(Created(- op.id, op.row.vals).vals, 1)]
        \/ NextOp("keep")
    BY SendCreateDoes
  <1>3. CASE NextOp("keep")
    <2>1. op'.at = "keep" /\ op'.action = op.action /\ op'.id = op.id /\ op'.row = op.row /\ op'.dirty = op.dirty
      BY <1>1, <1>3 DEF NextOp
    <2>2. NotAhead(op.id, op.row)'
      BY <1>1, <2>1, StillHonest DEF TypeOK, SyncInv, OpInv, Calling
    <2> QED
      BY <1>1, <2>1, <2>2 DEF SyncInv, OpInv, Calling
  <1>4. ASSUME NEW n, Makes(n, - op.id, op.row.vals),
               op' = [op EXCEPT !.at = "cache", !.id = n, !.row = Row(Created(- op.id, op.row.vals).vals, 1)]
        PROVE  OpInv'
    <2>1. op'.at = "cache" /\ op'.action = "create" /\ op'.id = n /\ op'.row = Row(Created(- op.id, op.row.vals).vals, 1)
      BY <1>1, <1>4
    <2>2. server'[n] = Created(- op.id, op.row.vals) /\ n \in DOMAIN server'
      BY <1>4 DEF Makes
    <2>3. Honest(op.id, op.row)'
      BY <2>1, <2>2 DEF Honest, Fresh, Row, Created
    <2> QED
      BY <2>1, <2>3 DEF OpInv, Calling
  <1> QED
    BY <1>2, <1>3, <1>4

LEMMA SendChangeOp ==
  ASSUME TypeOK, TypeOK', SyncInv, Later, SendChange
  PROVE  OpInv'
  <1>1. /\ op.at = "send" /\ op.action \in {"update", "status_update"} /\ IsId(op.id) /\ op.row \in Rows
        /\ op = [at |-> op.at, action |-> op.action, id |-> op.id, row |-> op.row, base |-> op.base, dirty |-> op.dirty]
    BY SendChangeDoes DEF TypeOK, OpOK
  <1>2. \/ /\ Alters(op.id, SetOf(op.action), op.row.vals)
           /\ op' = [op EXCEPT !.at = "cache", !.row = Row(server'[op.id].vals, server'[op.id].version)]
        \/ op' = NoOp
        \/ NextOp("keep") /\ op.action = "update"
        \/ (NextOp("queue") \/ NextOp("revert")) /\ op.action = "status_update"
    BY SendChangeDoes
  <1>3. CASE op' = NoOp
    BY <1>3, KeptInv
  <1>4. CASE (NextOp("keep") /\ op.action = "update") \/ ((NextOp("queue") \/ NextOp("revert")) /\ op.action = "status_update")
    <2>1. /\ op'.at \in {"keep", "queue", "revert"} /\ (op'.at = "keep" <=> op.action = "update")
          /\ op'.action = op.action /\ op'.id = op.id /\ op'.row = op.row /\ op'.dirty = op.dirty
      BY <1>1, <1>4 DEF NextOp
    <2>2. NotAhead(op.id, op.row)'
      BY <1>1, <2>1, StillHonest DEF TypeOK, SyncInv, OpInv, Calling
    <2> QED
      BY <1>1, <2>1, <2>2 DEF SyncInv, OpInv, Calling
  <1>5. CASE /\ Alters(op.id, SetOf(op.action), op.row.vals)
             /\ op' = [op EXCEPT !.at = "cache", !.row = Row(server'[op.id].vals, server'[op.id].version)]
    <2>1. /\ op'.at = "cache" /\ op'.action = op.action /\ op'.id = op.id /\ op'.dirty = op.dirty
          /\ op'.row = Row(server'[op.id].vals, server'[op.id].version)
      BY <1>1, <1>5
    <2>2. op.id \in DOMAIN server' /\ server'[op.id].version \in Nat \ {0}
      BY <1>5, LaterItem DEF Alters, ItemsKept, TypeOK
    <2>3. Honest(op.id, op.row)'
      BY <2>1, <2>2 DEF Honest, Fresh, Row
    <2> QED
      BY <1>1, <2>1, <2>3 DEF OpInv, Calling, SyncInv
  <1> QED
    BY <1>2, <1>3, <1>4, <1>5

LEMMA KeepOp ==
  ASSUME TypeOK, TypeOK', SyncInv, Later, KeepLocally
  PROVE  OpInv'
  <1>1. CASE op' = NoOp
    BY <1>1, KeptInv
  <1>2. CASE op' # NoOp
    <2>1. /\ op.at = "keep" /\ server' = server /\ op.action \in Actions
          /\ op'.at = "queue" /\ op'.action = op.action /\ op'.id = op.id
          /\ op'.row.version = op.row.version
          /\ op'.row.vals["status"] = op'.base.vals["status"]
          /\ op.action # "update" => op'.base = op.row /\ op'.row = op.row
          /\ op'.dirty = IF op.action = "update" THEN Changed(op'.base.vals, op'.row.vals) ELSE op.dirty
      BY <1>2, KeepDoes
    <2>2. NotAhead(op'.id, op'.row)
      BY <2>1 DEF SyncInv, OpInv, Calling, NotAhead
    <2>3. op.action = "update" => op'.dirty = {c \in Fields : op'.base.vals[c] # op'.row.vals[c]}
      BY <2>1 DEF Changed, Columns
    <2>4. op.action = "create" => op'.row.vals["status"] = "active" /\ op'.row.version = 1 /\ op'.dirty = Columns
      BY <2>1 DEF SyncInv, OpInv, Calling
    <2>5. op.action = "status_update" => op'.dirty = {"status"}
      BY <2>1 DEF SyncInv, OpInv
    <2>6. NotAhead(op.id, op.row)'
      BY <2>1, <2>2, SMTT(30) DEF NotAhead
    <2> QED
      BY <2>1, <2>3, <2>4, <2>5, <2>6 DEF OpInv, Calling
  <1> QED
    BY <1>1, <1>2

LEMMA OpStepInv ==
  ASSUME TypeOK, TypeOK', SyncInv, Later, [Next]_vars
  PROVE  OpInv'
  <1>1. UNCHANGED op \/ op' = NoOp => OpInv'
    BY KeptInv
  <1> QED
    BY <1>1, BeginOp, SendCreateOp, SendChangeOp, KeepOp DEF Next, vars, OpStep, FlushStep, SyncStep, _cacheItems,
       RevertStatus, _enqueue, flushPendingMutations, FlushedAll, FlushCreate, _retargetPendingMutations, DropLocal,
       _applyWithConflictResolution, AnswerNotStored, RefuseCreate, _fetchServerItem, _rebasePendingMutations,
       PutSynced, _deleteMutation, syncInventoryItems, SeePending, GetItems, clearAll, _replaceCache, Others,
       OtherChanges, Connect, Disconnect, cleanupOrphanedItems

----------------------------------------
(* What the tables hold is never ahead.                                    *)
LEMMA ReappliedShown ==
  ASSUME TypeOK, NEW T, IsTable(T), NEW m \in Mutations, NEW i, NEW c \in Fields, NEW n, NEW P,
         Shown(T, i, c, n, P), Shown(sy.snapshot, i, c, n, P),
         m.action = "create" /\ m.id = i /\ n = 1 => m.vals[c] \in P
  PROVE  Shown(Reapplied(T, m), i, c, n, P)
  <1>1. CASE m.action = "create"
    <2> DEFINE row == IF m.id \in DOMAIN sy.snapshot THEN sy.snapshot[m.id] ELSE Row(m.vals, 1)
    <2>1. m.id = i /\ row.version = n => row.vals[c] \in P
      BY <1>1 DEF Shown, Row
    <2>2. Reapplied(T, m) = With(T, m.id, row)
      BY <1>1 DEF Reapplied
    <2> HIDE DEF row
    <2> QED
      BY <2>1, <2>2 DEF Shown, With
  <1>2. CASE m.action = "update"
    <2>1. Reapplied(T, m) = IF m.id \in DOMAIN sy.snapshot THEN With(T, m.id, sy.snapshot[m.id]) ELSE T
      BY <1>2 DEF Reapplied
    <2> QED
      BY <2>1 DEF Shown, With
  <1>3. CASE m.action \notin {"create", "update"}
    <2>1. CASE m.id \in DOMAIN T
      <3> DEFINE s == m.vals["status"]
                 row == [T[m.id] EXCEPT !.vals["status"] = s]
      <3>1. Reapplied(T, m) = [T EXCEPT ![m.id] = row]
        BY <1>3, <2>1 DEF Reapplied
      <3>2. T[m.id] \in Rows /\ c \in Columns /\ c # "status"
        BY <2>1, OfflineSyncAssumption DEF IsTable, Columns
      <3>3. PICK vals : vals = [T[m.id].vals EXCEPT !["status"] = s]
        OBVIOUS
      <3>4. row = [vals |-> vals, version |-> T[m.id].version]
        BY <3>2, <3>3 DEF Rows
      <3>5. row.version = T[m.id].version /\ row.vals[c] = T[m.id].vals[c]
        BY <3>2, <3>3, <3>4 DEF Rows, AllVals
      <3> HIDE DEF row
      <3> QED
        BY <3>1, <3>5 DEF Shown
    <2>2. CASE m.id \notin DOMAIN T
      BY <1>3, <2>2 DEF Reapplied
    <2> QED
      BY <2>1, <2>2
  <1> QED
    BY <1>1, <1>2, <1>3

LEMMA FilledShown ==
  ASSUME TypeOK, NEW filled, IsTable(filled), NEW ms, IsQueue(ms),
         NEW i, NEW c \in Fields, NEW n, NEW P,
         Shown(filled, i, c, n, P), Shown(sy.snapshot, i, c, n, P),
         \A k \in DOMAIN ms : ms[k].action = "create" /\ ms[k].id = i /\ n = 1 => ms[k].vals[c] \in P
  PROVE  Shown(FoldLeft(Reapplied, filled, ms), i, c, n, P)
  <1>1. PICK l \in Nat : DOMAIN ms = 1..l
    BY Indices DEF IsQueue
  <1> DEFINE g == CHOOSE h : Fill(filled, ms, h)
             S == 1..l
             T == {s \in SUBSET S : IsTable(g[s]) /\ Shown(g[s], i, c, n, P)}
  <1>2. Fill(filled, ms, g)
    BY <1>1, FillExists
  <1>3. FoldLeft(Reapplied, filled, ms) = g[S]
    BY <1>1, FillDef
  <1> HIDE DEF g
  <1>4. \A s \in SUBSET S : g[s] = IF s = {} THEN filled ELSE Reapplied(g[s \ {Max(s)}], ms[Max(s)])
    BY <1>1, <1>2 DEF Fill
  <1>5. \A k \in S : /\ ms[k] \in Mutations /\ IsId(ms[k].id)
                     /\ ms[k].action = "create" /\ ms[k].id = i /\ n = 1 => ms[k].vals[c] \in P
    BY <1>1, Indices DEF IsQueue
  <1>6. ASSUME NEW s \in SUBSET S, \A t \in SUBSET s : t # s => t \in T
        PROVE  s \in T
    <2>1. CASE s = {}
      <3>1. g[s] = filled
        BY <1>4, <2>1
      <3> QED
        BY <3>1
    <2>2. CASE s # {}
      <3>1. Max(s) \in s /\ Max(s) \in S
        BY <2>2, GreatestIsMember
      <3>2. s \ {Max(s)} \in T
        BY <1>6, <3>1
      <3>3. g[s] = Reapplied(g[s \ {Max(s)}], ms[Max(s)])
        BY <1>4, <2>2
      <3>4. PICK U, m : U = g[s \ {Max(s)}] /\ m = ms[Max(s)]
        OBVIOUS
      <3>5. /\ IsTable(U) /\ Shown(U, i, c, n, P) /\ m \in Mutations /\ IsId(m.id)
            /\ m.action = "create" /\ m.id = i /\ n = 1 => m.vals[c] \in P
        BY <1>5, <3>1, <3>2, <3>4
      <3> HIDE DEF T
      <3>6. IsTable(Reapplied(U, m)) /\ Shown(Reapplied(U, m), i, c, n, P)
        BY <3>5, ReappliedIs, ReappliedShown
      <3> QED
        BY <3>3, <3>4, <3>6 DEF T
    <2> QED
      BY <2>1, <2>2
  <1>7. T = SUBSET S
    <2>1. IsFiniteSet(S) /\ T \subseteq SUBSET S
      BY FS_Interval
    <2> HIDE DEF S, T
    <2> QED
      BY <1>6, <2>1, SubsetInduction
  <1>8. S \in T
    BY <1>7
  <1> QED
    BY <1>3, <1>8

(* No table is ahead of the server.                                        *)
LEMMA HonestIsNotAhead ==
  ASSUME NEW i, NEW row, Honest(i, row)
  PROVE  NotAhead(i, row)
  BY DEF Honest, NotAhead

LEMMA FilledNotAhead ==
  ASSUME TypeOK, SyncInv, NEW filled, IsTable(filled), \A i \in DOMAIN filled : NotAhead(i, filled[i])
  PROVE  LET T == FoldLeft(Reapplied, filled, sy.remaining) IN \A i \in DOMAIN T : NotAhead(i, T[i])
  <1>1. PICK T : T = FoldLeft(Reapplied, filled, sy.remaining)
    OBVIOUS
  <1> SUFFICES ASSUME NEW i \in DOMAIN T PROVE NotAhead(i, T[i])
    BY <1>1
  <1>2. IsQueue(sy.remaining) /\ \A j \in DOMAIN sy.snapshot : NotAhead(j, sy.snapshot[j])
    BY DEF TypeOK, SyncOK, SyncInv, RowsInv
  <1>3. PICK c \in Fields : TRUE
    BY OfflineSyncAssumption
  <1>4. PICK n : n = T[i].version
    OBVIOUS
  <1>5. CASE n = 1
    BY <1>4, <1>5, ServerItem DEF NotAhead, TypeOK
  <1>6. CASE n # 1
    <2>1. CASE Shown(filled, i, c, n, {}) /\ Shown(sy.snapshot, i, c, n, {})
      <3>1. PICK P : P = {}
        OBVIOUS
      <3>2. Shown(FoldLeft(Reapplied, filled, sy.remaining), i, c, n, P)
        BY <1>2, <1>6, <2>1, <3>1, FilledShown
      <3> QED
        BY <1>1, <1>4, <3>1, <3>2 DEF Shown
    <2>2. CASE ~ (Shown(filled, i, c, n, {}) /\ Shown(sy.snapshot, i, c, n, {}))
      BY <1>2, <1>4, <2>2 DEF Shown, NotAhead
    <2> QED
      BY <2>1, <2>2
  <1> QED
    BY <1>5, <1>6

LEMMA Stays ==
  ASSUME TypeOK, TypeOK', Later
  PROVE  /\ \A i, row : Honest(i, row) => StaysHonest(i, row) /\ StaysBehind(i, row)
         /\ \A i, row : IsId(i) /\ NotAhead(i, row) => StaysBehind(i, row)
  <1>1. \A i, row : Honest(i, row) => Honest(i, row)'
    BY StillHonest DEF TypeOK
  <1>2. \A i, row : IsId(i) /\ NotAhead(i, row) => NotAhead(i, row)'
    BY StillHonest DEF TypeOK
  <1>3. \A i, row : Honest(i, row)' => StaysHonest(i, row) /\ StaysBehind(i, row)
    BY DEF Honest, Fresh, StaysHonest, StaysBehind
  <1>4. \A i, row : NotAhead(i, row)' => StaysBehind(i, row)
    BY DEF NotAhead, StaysBehind
  <1> QED
    BY <1>1, <1>2, <1>3, <1>4

LEMMA RowsStepInv ==
  ASSUME TypeOK, TypeOK', SyncInv, Later, [Next]_vars
  PROVE  RowsInv'
  <1> DEFINE Tables == (UNCHANGED sy \/ sy' = NoSync) /\ UNCHANGED local
  <1>1. \A i, row : IsId(i) /\ NotAhead(i, row) => StaysBehind(i, row)
    BY Stays
  <1>2. \A i, row : Honest(i, row) => StaysBehind(i, row)
    BY Stays
  <1>3. \A i \in DOMAIN local : IsId(i) /\ NotAhead(i, local[i]) /\ StaysBehind(i, local[i])
    BY <1>1 DEF SyncInv, RowsInv, TypeOK, IsTable
  <1>4. UNCHANGED sy \/ sy' = NoSync => /\ \A i \in DOMAIN sy.snapshot' : NotAhead(i, sy.snapshot[i])'
                                        /\ \A i \in DOMAIN sy.remote' : Honest(i, sy.remote[i])'
    BY KeptInv
  <1>5. CASE Tables
    BY <1>4, <1>5, KeptInv DEF RowsInv
  <1>6. ASSUME UNCHANGED sy, \A i \in DOMAIN local' : StaysBehind(i, local'[i])
        PROVE  RowsInv'
    BY <1>4, <1>6 DEF RowsInv, StaysBehind, NotAhead
  <1>7. CASE createInventoryItem \/ updateItem \/ updateItemStatus
    <2>1. UNCHANGED sy
      BY <1>7, BeginDoes
    <2>2. \/ UNCHANGED local
          \/ /\ op'.id \in DOMAIN local /\ local' = [local EXCEPT ![op'.id] = op'.row]
             /\ op'.row.version = local[op'.id].version
      BY <1>7, BeginDoes DEF Varies
    <2>3. \A i \in DOMAIN local' : i \in DOMAIN local /\ local'[i].version = local[i].version
      BY <2>2
    <2>4. \A i \in DOMAIN local' : StaysBehind(i, local'[i])
      BY <1>3, <2>3 DEF StaysBehind
    <2> QED
      BY <1>6, <2>1, <2>4
  <1>8. CASE _cacheItems
    <2>1. UNCHANGED sy /\ local' = With(local, op.id, op.row) /\ op.at = "cache"
      BY <1>8 DEF _cacheItems
    <2>2. StaysBehind(op.id, op.row)
      BY <1>2, <2>1 DEF SyncInv, OpInv
    <2>3. \A i \in DOMAIN local' : StaysBehind(i, local'[i])
      BY <1>3, <2>1, <2>2 DEF With
    <2> QED
      BY <1>6, <2>1, <2>3
  <1>9. CASE RevertStatus
    <2>1. UNCHANGED <<sy, server>>
      BY <1>9 DEF RevertStatus
    <2>2. \A i \in DOMAIN local' : i \in DOMAIN local /\ local'[i].version = local[i].version
      <3>1. CASE op.id \in DOMAIN local
        <4>a. PICK i \in DOMAIN local : \E s : local' = [local EXCEPT ![i].vals["status"] = s] /\ i = op.id
          BY <1>9, <3>1 DEF RevertStatus
        <4>1. PICK s : local' = [local EXCEPT ![i].vals["status"] = s] /\ i = op.id
          BY <4>a
        <4>2. local[i] \in Rows
          BY DEF TypeOK, IsTable
        <4> QED
          BY <4>1, <4>2 DEF Rows
      <3>2. CASE op.id \notin DOMAIN local
        BY <1>9, <3>2 DEF RevertStatus
      <3> QED
        BY <3>1, <3>2
    <2>3. \A i \in DOMAIN local' : StaysBehind(i, local'[i])
      BY <1>3, <2>2 DEF StaysBehind
    <2> QED
      BY <1>6, <2>1, <2>3
  <1>10. CASE KeepLocally
    <2>1. UNCHANGED <<sy, server>> /\ (UNCHANGED local \/ (local' = With(local, op.id, op'.row) /\ op'.row.version = op.row.version)) /\ op.at = "keep"
      BY <1>10, KeepDoes
    <2>2. IsId(op.id) /\ NotAhead(op.id, op.row)
      BY <2>1 DEF SyncInv, OpInv, Calling, TypeOK, OpOK
    <2>4. StaysBehind(op.id, op.row)
      BY <1>1, <2>2
    <2>3. \A i \in DOMAIN local' : StaysBehind(i, local'[i])
      BY <1>3, <2>1, <2>4 DEF With, StaysBehind
    <2> QED
      BY <1>6, <2>1, <2>3
  <1>11. CASE DropLocal \/ cleanupOrphanedItems
    <2>1. (UNCHANGED sy \/ sy' = NoSync) /\ \E ids : local' = Without(local, ids)
      BY <1>11 DEF DropLocal, cleanupOrphanedItems
    <2>2. \A i \in DOMAIN local' : StaysBehind(i, local'[i])
      BY <1>3, <2>1 DEF Without
    <2> QED
      BY <1>4, <2>1, <2>2 DEF RowsInv, StaysBehind, NotAhead
  <1>12. CASE PutSynced
    <2>1. UNCHANGED <<sy, server>> /\ local' = With(local, fl.got, fl.row) /\ fl.at = "put"
      BY <1>12 DEF PutSynced
    <2>2. StaysBehind(fl.got, fl.row)
      BY <1>2, <2>1 DEF SyncInv, FlushInv
    <2>3. \A i \in DOMAIN local' : StaysBehind(i, local'[i])
      BY <1>3, <2>1, <2>2 DEF With
    <2> QED
      BY <1>6, <2>1, <2>3
  <1>13. CASE syncInventoryItems \/ SeePending
    <2>1. UNCHANGED local /\ sy'.snapshot = sy.snapshot /\ sy'.remote = sy.remote /\ server' = server
      BY <1>13 DEF syncInventoryItems, SeePending, NextSync, TypeOK, SyncOK
    <2> QED
      BY <1>3, <2>1 DEF RowsInv, SyncInv, NotAhead, Honest, Fresh
  <1>14. CASE GetItems
    <2>1. CASE sy' = NoSync
      BY <1>5, <1>14, <2>1 DEF GetItems
    <2>2. CASE sy' # NoSync
      <3>1. UNCHANGED local /\ sy'.snapshot = sy.snapshot /\ server' = server
            /\ sy'.remote = [i \in Listed |-> Row(server[i].vals, server[i].version)]
        BY <1>14, <2>2 DEF GetItems, TypeOK, SyncOK
      <3>2. \A i \in DOMAIN sy'.remote : i \in DOMAIN server /\ sy'.remote[i] = Row(server[i].vals, server[i].version)
        BY <3>1 DEF Listed
      <3>3. \A i \in DOMAIN server : Honest(i, Row(server[i].vals, server[i].version))
        <4> TAKE i \in DOMAIN server
        <4>1. server[i].version \in Nat \ {0}
          BY ServerItem DEF TypeOK
        <4> QED
          BY <4>1 DEF Honest, Fresh, Row
      <3>4. \A i \in DOMAIN sy'.remote : Honest(i, sy'.remote[i])
        BY <3>2, <3>3
      <3> QED
        BY <1>3, <3>1, <3>4 DEF RowsInv, SyncInv, NotAhead, Honest, Fresh
    <2> QED
      BY <2>1, <2>2
  <1>15. CASE clearAll
    <2>1. local' = <<>> /\ sy'.remote = sy.remote /\ server' = server
          /\ \A i \in DOMAIN sy'.snapshot : i \in DOMAIN local /\ sy'.snapshot[i] = local[i]
      BY <1>15 DEF clearAll, Emptied, TypeOK, SyncOK, getAllItems
    <2>2. /\ \A i \in DOMAIN sy'.snapshot : NotAhead(i, sy'.snapshot[i])
          /\ \A i \in DOMAIN sy'.remote : Honest(i, sy'.remote[i])
      BY <1>3, <2>1 DEF SyncInv, RowsInv
    <2> QED
      BY <2>1, <2>2 DEF RowsInv, NotAhead, Honest, Fresh
  <1>16. CASE _replaceCache
    <2> DEFINE filled == [i \in DOMAIN local \cup DOMAIN sy.remote |->
                            IF i \in DOMAIN sy.remote THEN sy.remote[i] ELSE local[i]]
    <2>1. sy' = NoSync /\ server' = server /\ local' = FoldLeft(Reapplied, filled, sy.remaining)
      BY <1>16 DEF _replaceCache
    <2>2. IsTable(filled) /\ \A i \in DOMAIN filled : NotAhead(i, filled[i])
      <3>1. \A i \in DOMAIN sy.remote : NotAhead(i, sy.remote[i])
        BY HonestIsNotAhead DEF SyncInv, RowsInv
      <3> QED
        BY <1>3, <3>1 DEF TypeOK, SyncOK, IsTable
    <2> HIDE DEF filled
    <2>3. \A i \in DOMAIN local' : NotAhead(i, local'[i])
      BY <2>1, <2>2, FilledNotAhead
    <2> QED
      BY <1>4, <2>1, <2>3 DEF RowsInv, NotAhead
  <1> HIDE DEF Tables
  <1>17. CASE FlushStep
    <2>1. CASE ~ (DropLocal \/ PutSynced)
      BY <1>5, <1>17, <2>1 DEF Tables, FlushStep, FlushedAll, FlushCreate, _retargetPendingMutations,
         _applyWithConflictResolution, AnswerNotStored, RefuseCreate, _fetchServerItem, _rebasePendingMutations,
         _deleteMutation
    <2> QED
      BY <1>11, <1>12, <2>1
  <1>18. CASE SendCreate \/ SendChange \/ _enqueue
    BY <1>5, <1>18 DEF Tables, SendCreate, SendChange, _enqueue
  <1>19. CASE flushPendingMutations \/ Others \/ Connect \/ Disconnect \/ UNCHANGED vars
    BY <1>5, <1>19, ZenonT(40) DEF Tables, flushPendingMutations, Others, OtherChanges, Connect, Disconnect, vars
  <1> QED
    BY <1>7, <1>8, <1>9, <1>10, <1>11, <1>13, <1>14, <1>15, <1>16, <1>17, <1>18, <1>19
       DEF Next, OpStep, SyncStep

----------------------------------------
(* The answers kept, the queue, and what the flush knows of its head.      *)
LEMMA MadeIsHonest ==
  ASSUME NEW n, NEW t, NEW vals, Makes(n, t, vals)
  PROVE  /\ StaysHonest(n, Row(Created(t, vals).vals, 1)) /\ server'[n].thing = t
         /\ Row(Created(t, vals).vals, 1).version = 1
  BY DEF Makes, StaysHonest, Row, Created

LEMMA FlushCreateInv ==
  ASSUME TypeOK, TypeOK', SyncInv, Later, FlushCreate
  PROVE  AnswersInv' /\ FlushInv'
  <1> DEFINE m == queue[1]
             todo == {k \in DOMAIN queue : queue[k].id = m.id}
  <1>1. /\ UNCHANGED queue /\ m.action = "create" /\ 1 \in DOMAIN queue /\ IsId(m.id)
        /\ \/ FlushOff /\ answers' = answers
           \/ \E id, row :
                /\ answers' = With(answers, m.key, [id |-> id, row |-> row])
                /\ \/ /\ m.key \in DOMAIN answers /\ server' = server
                      /\ id = answers[m.key].id /\ row = answers[m.key].row
                   \/ /\ m.key \notin DOMAIN answers /\ Makes(id, m.key, m.vals)
                      /\ row = Row(Created(m.key, m.vals).vals, 1)
                /\ \/ FlushOff
                   \/ fl' = [at |-> "retarget", from |-> m.id, got |-> id, row |-> row, todo |-> todo]
    BY FlushCreateDoes
  <1>2. CASE FlushOff /\ answers' = answers
    BY <1>2, KeptInv
  <1>3. ASSUME NEW id, NEW row,
               answers' = With(answers, m.key, [id |-> id, row |-> row]),
               \/ /\ m.key \in DOMAIN answers /\ server' = server
                  /\ id = answers[m.key].id /\ row = answers[m.key].row
               \/ /\ m.key \notin DOMAIN answers /\ Makes(id, m.key, m.vals)
                  /\ row = Row(Created(m.key, m.vals).vals, 1),
               \/ FlushOff
               \/ fl' = [at |-> "retarget", from |-> m.id, got |-> id, row |-> row, todo |-> todo]
        PROVE  AnswersInv' /\ FlushInv'
    <2>1. StaysHonest(id, row) /\ row.version = 1 /\ server'[id].thing = m.key
      <3>1. CASE m.key \in DOMAIN answers /\ server' = server /\ id = answers[m.key].id /\ row = answers[m.key].row
        <4>1. Honest(id, row) /\ row.version = 1 /\ server[id].thing = m.key
          BY <3>1 DEF SyncInv, AnswersInv
        <4> QED
          BY <3>1, <4>1, Stays
      <3>2. CASE Makes(id, m.key, m.vals) /\ row = Row(Created(m.key, m.vals).vals, 1)
        BY <3>2, MadeIsHonest
      <3> QED
        BY <1>3, <3>1, <3>2
    <2>2. \A t \in DOMAIN answers : /\ StaysHonest(answers[t].id, answers[t].row) /\ answers[t].row.version = 1
                                    /\ server'[answers[t].id].thing = t
      BY Stays DEF SyncInv, AnswersInv, Later, Honest
    <2>3. \A t \in DOMAIN answers' : /\ StaysHonest(answers'[t].id, answers'[t].row) /\ answers'[t].row.version = 1
                                     /\ server'[answers'[t].id].thing = t
      BY <1>3, <2>1, <2>2 DEF With
    <2>4. AnswersInv'
      BY <2>3 DEF AnswersInv, StaysHonest, Honest, Fresh
    <2>5. CASE FlushOff
      BY <2>4, <2>5, KeptInv
    <2>6. CASE fl' = [at |-> "retarget", from |-> m.id, got |-> id, row |-> row, todo |-> todo]
      <3>1. fl'.at = "retarget" /\ fl'.from = m.id /\ fl'.got = id /\ fl'.row = row /\ fl'.todo = todo
        BY <2>6
      <3>2. 1 \in todo /\ \A k \in todo : queue[k].id = m.id
        BY <1>1
      <3>3. m.key = Thing(m.id)
        BY <1>1 DEF SyncInv, QueueInv, MutationOK
      <3>4. \A i : IsId(i) => Thing(i)' = Thing(i)
        BY StillHonest DEF TypeOK
      <3>5. PICK i : i = m.id
        OBVIOUS
      <3>6. Thing(i)' = m.key
        BY <1>1, <3>3, <3>4, <3>5
      <3>7. Thing(fl.from)' = m.key
        BY <3>1, <3>5, <3>6 DEF Thing
      <3>8. Honest(fl.got, fl.row)'
        BY <2>1, <3>1, SMTT(30) DEF StaysHonest, Honest, Fresh
      <3> HIDE DEF todo
      <3> QED
        BY <1>1, <2>1, <2>4, <3>1, <3>2, <3>7, <3>8 DEF FlushInv
    <2> QED
      BY <1>3, <2>5, <2>6
  <1> QED
    BY <1>1, <1>2, <1>3

LEMMA AnswersStepInv ==
  ASSUME TypeOK, TypeOK', SyncInv, Later, [Next]_vars
  PROVE  AnswersInv'
  <1>1. UNCHANGED answers => AnswersInv'
    BY KeptInv
  <1>2. CASE createInventoryItem \/ updateItem \/ updateItemStatus
    BY <1>1, <1>2, BeginDoes
  <1> QED
    BY <1>1, <1>2, FlushCreateInv, ZenonT(40) DEF Next, vars, OpStep, FlushStep, SyncStep, SendCreate, SendChange,
       KeepLocally, _cacheItems, RevertStatus, _enqueue, flushPendingMutations, FlushedAll, _retargetPendingMutations,
       DropLocal, _applyWithConflictResolution, AnswerNotStored, RefuseCreate, _fetchServerItem,
       _rebasePendingMutations, PutSynced, _deleteMutation, syncInventoryItems, SeePending, GetItems, clearAll,
       _replaceCache, Others, OtherChanges, Connect, Disconnect, cleanupOrphanedItems

LEMMA EnqueueInv ==
  ASSUME TypeOK, TypeOK', SyncInv, CreationsInv, Later, _enqueue
  PROVE  QueueInv' /\ ResentInv' /\ FlushInv'
  <1> DEFINE t == Thing(op.id)
             n == Len(queue) + 1
             m == queue'[n]
  <1>1. /\ op.at = "queue" /\ op.action \in Actions /\ IsId(op.id)
        /\ UNCHANGED <<undated, server, fl>>
        /\ DOMAIN queue' = DOMAIN queue \cup {n} /\ n \notin DOMAIN queue
        /\ \A k \in DOMAIN queue : queue'[k] = queue[k]
        /\ m.action = op.action /\ m.id = op.id /\ m.key = t /\ m.vals = op.row.vals
        /\ m.base = op.base.vals /\ m.version = op.row.version
        /\ m.dirty = IF op.action = "create" THEN {} ELSE op.dirty
        /\ resent' = IF op.action = "update" /\ (\E k \in PendingOf(t) : queue[k].action # "create")
                     THEN resent \cup {t} ELSE resent
    BY EnqueueDoes
  <1>2. Calling
    BY <1>1 DEF Calling
  <1>3. MutationOK(m)
    BY <1>1, <1>2 DEF SyncInv, OpInv, MutationOK, NotAhead
  <1>4. \A k \in DOMAIN queue' : MutationOK(queue'[k])
    BY <1>1, <1>3 DEF SyncInv, QueueInv
  <1>5. \A k \in DOMAIN queue : op.action = "create" /\ queue[k].action = "create" => queue[k].key # t
    <2> SUFFICES ASSUME NEW k \in DOMAIN queue, op.action = "create", queue[k].action = "create", queue[k].key = t
                 PROVE  FALSE
      OBVIOUS
    <2>1. Creating /\ - op.id \notin Pending
      BY <1>1 DEF Creating, CreationsInv
    <2>2. op.id < 0
      <3>1. - op.id \in 1..ops /\ ops \in Nat /\ op.id \in Int
        BY <1>1, OfflineSyncAssumption DEF TypeOK, OpOK, ServerOK
      <3> QED
        BY <3>1
    <2>3. t = - op.id
      BY <2>2 DEF Thing
    <2> QED
      BY <2>1, <2>3 DEF Pending
  <1>6. \A j, k \in DOMAIN queue' :
          queue'[j].action = "create" /\ queue'[k].action = "create" /\ queue'[j].key = queue'[k].key => j = k
    <2> HIDE DEF n
    <2> QED
      BY <1>1, <1>5 DEF SyncInv, QueueInv
  <1>7. QueueInv'
    BY <1>1, <1>4, <1>6 DEF QueueInv, MutationOK, Thing, NotAhead
  <1>8. \A i : Thing(i)' = Thing(i)
    BY <1>1 DEF Thing
  <1>9. Len(queue) \in Nat /\ DOMAIN queue = 1..Len(queue)
    BY EnqueueDoes
  <1>10. \A j, k \in DOMAIN queue' :
           /\ j < k /\ Thing(queue'[j].id) = Thing(queue'[k].id)
           /\ queue'[j].action # "create" /\ queue'[k].action = "update"
           => Thing(queue'[k].id) \in resent'
    <2> TAKE j, k \in DOMAIN queue'
    <2> HAVE /\ j < k /\ Thing(queue'[j].id) = Thing(queue'[k].id)
             /\ queue'[j].action # "create" /\ queue'[k].action = "update"
    <2>1. j \in DOMAIN queue /\ queue'[j] = queue[j]
      BY <1>1, <1>9
    <2>2. CASE k \in DOMAIN queue
      BY <1>1, <2>1, <2>2 DEF SyncInv, ResentInv
    <2>3. CASE k = n
      <3>1. j \in PendingOf(t)
        BY <1>1, <2>1, <2>3 DEF PendingOf
      <3> QED
        BY <1>1, <2>1, <2>3, <3>1
    <2> QED
      BY <1>1, <2>2, <2>3
  <1>11. ResentInv'
    BY <1>8, <1>10 DEF ResentInv, Thing
  <1>12. FlushInv'
    <2>1. fl.at \notin {"off", "send"} => queue # <<>> /\ 1 \in DOMAIN queue /\ fl.todo \subseteq DOMAIN queue
      BY HeadIs DEF TypeOK, FlushOK
    <2>2. fl.at \in {"off", "send"} => FlushInv'
      BY <1>1 DEF FlushInv
    <2>3. CASE fl.at \notin {"off", "send"}
      <3>1. queue'[1] = queue[1] /\ \A k \in fl.todo : queue'[k] = queue[k]
        BY <1>1, <2>1, <2>3
      <3> HIDE DEF n, m, t
      <3> QED
        BY <1>1, <3>1 DEF SyncInv, FlushInv, Thing, Honest, Fresh
    <2> QED
      BY <2>2, <2>3
  <1> QED
    BY <1>7, <1>11, <1>12

LEMMA ReaddressedOK ==
  ASSUME TypeOK, NEW m, NEW n, NEW id, NEW version, MutationOK(m), Readdressed(m, n, id, version),
         Thing(id) = Thing(m.id), NotAhead(id, n), m.action = "create" => version = 1
  PROVE  MutationOK(n)
  BY DEF MutationOK, Readdressed, NotAhead

LEMMA RetargetInv ==
  ASSUME TypeOK, TypeOK', SyncInv, Later, _retargetPendingMutations
  PROVE  QueueInv' /\ ResentInv' /\ FlushInv'
  <1>1. /\ fl.at = "retarget" /\ UNCHANGED <<server, resent>> /\ DOMAIN queue' = DOMAIN queue
    BY RetargetDoes DEF history
  <1>2. PICK k \in fl.todo :
              /\ k \in DOMAIN queue /\ \A j \in fl.todo : k <= j
              /\ \A j \in DOMAIN queue : j # k => queue'[j] = queue[j]
              /\ Readdressed(queue[k], queue'[k], fl.got,
                             IF queue[k].action = "create" THEN queue[k].version ELSE fl.row.version)
              /\ fl'.at \in {"retarget", "drop"} /\ fl'.from = fl.from /\ fl'.got = fl.got /\ fl'.row = fl.row
              /\ fl'.todo = fl.todo \ {k}
              /\ fl'.at = "drop" => fl'.todo = {}
    BY RetargetDoes
  <1>3. /\ Honest(fl.got, fl.row) /\ fl.row.version = 1 /\ queue[1].action = "create"
        /\ Thing(fl.from) = server[fl.got].thing /\ queue[k].id = fl.from
        /\ 1 \in fl.todo \/ queue[1].id = fl.got
        /\ \A j \in fl.todo : queue[j].id = fl.from
    BY <1>1, <1>2 DEF SyncInv, FlushInv
  <1>4. fl.got \in DOMAIN server /\ fl.got \in Nat \ {0} /\ server[fl.got].version \in Nat \ {0}
    BY <1>1, ServerItem DEF TypeOK, FlushOK
  <1>5. Thing(fl.got) = Thing(queue[k].id)
    BY <1>3, <1>4 DEF Thing
  <1>6. MutationOK(queue[k])
    BY <1>2 DEF SyncInv, QueueInv
  <1>7. queue'[k].version = 1 /\ queue'[k].id = fl.got
    BY <1>2, <1>3, <1>6 DEF Readdressed, MutationOK
  <1>8. MutationOK(queue'[k])
    <2>1. NotAhead(fl.got, queue'[k])
      BY <1>4, <1>7 DEF NotAhead
    <2>2. PICK m, nm, id, version : m = queue[k] /\ nm = queue'[k] /\ id = fl.got /\ version = 1
      OBVIOUS
    <2>3. Readdressed(m, nm, id, version)
      BY <1>2, <1>7, <2>2 DEF Readdressed
    <2>4. MutationOK(nm)
      BY <1>5, <1>6, <2>1, <2>2, <2>3, ReaddressedOK
    <2> QED
      BY <2>2, <2>4
  <1>9. \A j \in DOMAIN queue : /\ queue'[j].key = queue[j].key /\ queue'[j].action = queue[j].action
                                /\ MutationOK(queue'[j]) /\ Thing(queue'[j].id) = Thing(queue[j].id)
    <2> TAKE j \in DOMAIN queue
    <2>1. CASE j = k
      BY <1>2, <1>5, <1>7, <1>8, <2>1 DEF Readdressed
    <2>2. CASE j # k
      BY <1>2, <2>2 DEF SyncInv, QueueInv
    <2> QED
      BY <2>1, <2>2
  <1>10. QueueInv'
    BY <1>1, <1>9 DEF SyncInv, QueueInv, MutationOK, NotAhead, Thing
  <1>11. ResentInv'
    BY <1>1, <1>9 DEF SyncInv, ResentInv, Thing
  <1>12. FlushInv'
    <2>1. queue'[1].action = "create"
      <3>1. queue # <<>>
        BY <1>1 DEF TypeOK, FlushOK
      <3>2. 1 \in DOMAIN queue
        BY <3>1, HeadIs DEF TypeOK
      <3> QED
        BY <1>3, <1>9, <3>2
    <2>2. 1 \in fl'.todo \/ queue'[1].id = fl.got
      <3>1. CASE k = 1
        BY <1>7, <3>1
      <3>2. CASE k # 1
        <4>1. 1 \in DOMAIN queue
          <5>1. queue # <<>>
            BY <1>1 DEF TypeOK, FlushOK
          <5> QED
            BY <5>1, HeadIs DEF TypeOK
        <4>2. queue'[1] = queue[1]
          BY <1>2, <3>2, <4>1
        <4> QED
          BY <1>2, <1>3, <3>2, <4>2
      <3> QED
        BY <3>1, <3>2
    <2>3. \A j \in fl'.todo : queue'[j].id = fl.from
      BY <1>1, <1>2, <1>3 DEF TypeOK, FlushOK
    <2> QED
      BY <1>1, <1>2, <1>3, <2>1, <2>2, <2>3 DEF FlushInv, Honest, Fresh, Thing
  <1> QED
    BY <1>10, <1>11, <1>12

LEMMA RebaseInv ==
  ASSUME TypeOK, TypeOK', SyncInv, Later, _rebasePendingMutations
  PROVE  QueueInv' /\ ResentInv' /\ FlushInv'
  <1>1. /\ fl.at = "rebase" /\ UNCHANGED <<server, resent>> /\ DOMAIN queue' = DOMAIN queue
    BY RebaseDoes DEF history
  <1>2. PICK k \in fl.todo :
              /\ k \in DOMAIN queue
              /\ \A j \in DOMAIN queue : j # k => queue'[j] = queue[j]
              /\ Readdressed(queue[k], queue'[k], queue[k].id, fl.row.version)
              /\ fl'.at \in {"rebase", "put"} /\ fl'.got = fl.got /\ fl'.row = fl.row
              /\ fl'.todo = fl.todo \ {k}
    BY RebaseDoes
  <1>3. /\ Honest(fl.got, fl.row) /\ queue[1].action # "create" /\ queue[1].id = fl.got
        /\ \A j \in fl.todo : queue[j].id = fl.got /\ queue[j].action # "create"
    BY <1>1, <1>2 DEF SyncInv, FlushInv
  <1>6. MutationOK(queue[k])
    BY <1>2 DEF SyncInv, QueueInv
  <1>8. MutationOK(queue'[k])
    <2>1. NotAhead(queue[k].id, queue'[k])
      BY <1>2, <1>3 DEF NotAhead, Honest, Readdressed
    <2> QED
      BY <1>2, <1>3, <1>6, <2>1 DEF MutationOK, Readdressed
  <1>9. \A j \in DOMAIN queue : /\ queue'[j].key = queue[j].key /\ queue'[j].action = queue[j].action
                                /\ MutationOK(queue'[j]) /\ queue'[j].id = queue[j].id
    <2> TAKE j \in DOMAIN queue
    <2>1. CASE j = k
      BY <1>2, <1>8, <2>1 DEF Readdressed
    <2>2. CASE j # k
      BY <1>2, <2>2 DEF SyncInv, QueueInv
    <2> QED
      BY <2>1, <2>2
  <1>10. QueueInv'
    BY <1>1, <1>9 DEF SyncInv, QueueInv, MutationOK, NotAhead, Thing
  <1>11. ResentInv'
    BY <1>1, <1>9 DEF SyncInv, ResentInv, Thing
  <1>12. FlushInv'
    <2>1. queue # <<>>
      BY <1>1 DEF TypeOK, FlushOK
    <2>2. 1 \in DOMAIN queue
      BY <2>1, HeadIs DEF TypeOK
    <2>3. \A j \in fl'.todo : queue'[j].id = fl.got /\ queue'[j].action # "create"
      BY <1>1, <1>2, <1>3, <1>9 DEF TypeOK, FlushOK
    <2> QED
      BY <1>1, <1>2, <1>3, <1>9, <2>2, <2>3 DEF FlushInv, Honest, Fresh
  <1> QED
    BY <1>10, <1>11, <1>12

LEMMA DeleteInv ==
  ASSUME TypeOK, TypeOK', SyncInv, Later, _deleteMutation
  PROVE  QueueInv' /\ ResentInv' /\ FlushInv'
  <1>1. /\ fl' = [NoFlush EXCEPT !.at = "send"] /\ UNCHANGED <<server, resent>>
        /\ \A k \in DOMAIN queue' : k \in Nat \ {0} /\ k + 1 \in DOMAIN queue /\ queue'[k] = queue[k + 1]
    BY DeleteDoes
  <1>2. FlushInv'
    BY <1>1, KeptInv DEF FlushOff
  <1>3. \A j, k \in DOMAIN queue' :
          queue'[j].action = "create" /\ queue'[k].action = "create" /\ queue'[j].key = queue'[k].key => j = k
    <2> TAKE j, k \in DOMAIN queue'
    <2> HAVE queue'[j].action = "create" /\ queue'[k].action = "create" /\ queue'[j].key = queue'[k].key
    <2>1. j + 1 = k + 1 /\ j \in Nat /\ k \in Nat
      BY <1>1 DEF SyncInv, QueueInv
    <2> QED
      BY <2>1
  <1>4. \A k \in DOMAIN queue' : MutationOK(queue'[k])
    BY <1>1 DEF SyncInv, QueueInv
  <1>5. QueueInv'
    BY <1>1, <1>3, <1>4 DEF QueueInv, MutationOK, NotAhead, Thing
  <1>6. \A j, k \in DOMAIN queue' :
           /\ j < k /\ Thing(queue'[j].id) = Thing(queue'[k].id)
           /\ queue'[j].action # "create" /\ queue'[k].action = "update"
           => Thing(queue'[k].id) \in resent'
    <2> TAKE j, k \in DOMAIN queue'
    <2>1. j < k => j + 1 < k + 1
      BY <1>1
    <2> QED
      BY <1>1, <2>1 DEF SyncInv, ResentInv
  <1>7. ResentInv'
    BY <1>1, <1>6 DEF ResentInv, Thing
  <1> QED
    BY <1>2, <1>5, <1>7

LEMMA ApplyInv ==
  ASSUME TypeOK, TypeOK', SyncInv, Later, _applyWithConflictResolution
  PROVE  FlushInv'
  <1> DEFINE m == queue[1]
             todo == {k \in DOMAIN queue : queue[k].id = m.id /\ queue[k].action # "create"}
  <1>1. /\ fl.at \in {"send", "resend"} /\ 1 \in DOMAIN queue /\ queue' = queue
        /\ m.action \in {"update", "status_update"} /\ m \in Mutations /\ IsId(m.id)
        /\ \/ FlushOff
           \/ /\ m.id \in DOMAIN server' /\ server'[m.id].version \in Nat \ {0}
              /\ fl' = [at |-> "rebase", from |-> m.id, got |-> m.id,
                        row |-> Row(server'[m.id].vals, server'[m.id].version), todo |-> todo]
           \/ /\ server' = server /\ NextFlush("fetch") /\ m.id \in DOMAIN server
              /\ server[m.id].version # m.version
           \/ NextFlush("pop")
    BY ApplyDoes, LaterItem DEF Alters, ItemsKept, TypeOK
  <1>2. CASE FlushOff
    BY <1>2, KeptInv
  <1>3. CASE /\ m.id \in DOMAIN server' /\ server'[m.id].version \in Nat \ {0}
             /\ fl' = [at |-> "rebase", from |-> m.id, got |-> m.id,
                       row |-> Row(server'[m.id].vals, server'[m.id].version), todo |-> todo]
    <2>1. /\ fl'.at = "rebase" /\ fl'.got = m.id /\ fl'.todo = todo
          /\ fl'.row = Row(server'[m.id].vals, server'[m.id].version)
      BY <1>3
    <2>2. Honest(fl.got, fl.row)'
      BY <1>3, <2>1 DEF Honest, Fresh, Row
    <2> QED
      BY <1>1, <2>1, <2>2 DEF FlushInv
  <1>4. CASE server' = server /\ NextFlush("fetch") /\ m.id \in DOMAIN server /\ server[m.id].version # m.version
    <2>1. fl'.at = "fetch"
      BY <1>4 DEF NextFlush, TypeOK, FlushOK
    <2>2. m.version \in 1..server[m.id].version
      BY <1>1, <1>4 DEF SyncInv, QueueInv, MutationOK, NotAhead
    <2>3. server[m.id].version \in Nat
      BY <1>4, ServerItem DEF TypeOK
    <2>4. m.version < server[m.id].version
      BY <1>4, <2>2, <2>3
    <2> QED
      BY <1>1, <1>4, <2>1, <2>4 DEF FlushInv
  <1>5. CASE NextFlush("pop")
    <2>1. fl'.at = "pop"
      BY <1>5 DEF NextFlush, TypeOK, FlushOK
    <2> QED
      BY <1>1, <2>1 DEF FlushInv
  <1> QED
    BY <1>1, <1>2, <1>3, <1>4, <1>5

LEMMA OtherFlushInv ==
  ASSUME TypeOK, TypeOK', SyncInv, Later, DropLocal \/ PutSynced \/ _fetchServerItem \/ RefuseCreate
  PROVE  FlushInv'
  <1>2. CASE DropLocal
    <2>1. /\ fl.at = "drop" /\ fl'.at = "put" /\ fl'.got = fl.got /\ fl'.row = fl.row
          /\ UNCHANGED <<server, queue>>
      BY <1>2 DEF DropLocal, NextFlush, TypeOK, FlushOK
    <2> QED
      BY <2>1 DEF SyncInv, FlushInv, Honest, Fresh
  <1>3. CASE PutSynced
    <2>1. fl.at = "put" /\ fl'.at = "pop" /\ UNCHANGED <<server, queue>>
      BY <1>3 DEF PutSynced, NextFlush, TypeOK, FlushOK
    <2> QED
      BY <2>1 DEF SyncInv, FlushInv, Honest
  <1>4. CASE _fetchServerItem
    <2> DEFINE i == Head(queue).id
    <2>1. fl.at = "fetch" /\ UNCHANGED <<server, queue>>
      BY <1>4 DEF _fetchServerItem
    <2>2. i = queue[1].id
      <3>1. queue # <<>>
        BY <2>1 DEF TypeOK, FlushOK
      <3> QED
        BY <3>1, HeadIs DEF TypeOK
    <2>3. \/ FlushOff
          \/ i \in Listed /\ fl' = [fl EXCEPT !.at = "resend", !.row = Row(server[i].vals, server[i].version)]
      BY <1>4 DEF _fetchServerItem, FlushEnds, FlushOff
    <2>4. CASE FlushOff
      BY <2>4, KeptInv
    <2>5. CASE i \in Listed /\ fl' = [fl EXCEPT !.at = "resend", !.row = Row(server[i].vals, server[i].version)]
      <3>1. fl'.at = "resend" /\ fl'.row = Row(server[i].vals, server[i].version) /\ i \in DOMAIN server
        BY <2>5 DEF TypeOK, FlushOK, Listed
      <3>2. server[i].version \in Nat \ {0}
        BY <3>1, ServerItem DEF TypeOK
      <3>3. Honest(i, Row(server[i].vals, server[i].version))
        BY <3>1, <3>2 DEF Honest, Fresh, Row
      <3> QED
        BY <2>1, <2>2, <3>1, <3>3 DEF SyncInv, FlushInv, Honest, Fresh
    <2> QED
      BY <2>3, <2>4, <2>5
  <1>5. CASE RefuseCreate
    <2>1. CASE FlushOff
      BY <2>1, KeptInv
    <2>2. CASE fl' = [fl EXCEPT !.at = "pop"]
      BY <1>5, <2>2, RefuseDoes DEF FlushInv
    <2> QED
      BY <1>5, <2>1, <2>2, RefuseDoes
  <1> QED
    BY <1>2, <1>3, <1>4, <1>5

LEMMA QueueStepInv ==
  ASSUME TypeOK, TypeOK', SyncInv, CreationsInv, Later, [Next]_vars
  PROVE  QueueInv' /\ ResentInv' /\ FlushInv'
  <1> DEFINE Same == UNCHANGED <<queue, resent>>
             SameFlush == UNCHANGED fl \/ FlushOff
  <1>1. Same => QueueInv' /\ ResentInv'
    BY KeptInv
  <1>2. Same /\ SameFlush => FlushInv'
    BY KeptInv
  <1> HIDE DEF Same, SameFlush
  <1>3. CASE createInventoryItem \/ updateItem \/ updateItemStatus
    BY <1>1, <1>2, <1>3, BeginDoes DEF Same, SameFlush
  <1>4. CASE OpStep
    <2>1. CASE ~ _enqueue
      BY <1>1, <1>2, <1>4, <2>1 DEF Same, SameFlush, OpStep, SendCreate, SendChange, _cacheItems, RevertStatus,
         KeepLocally, history
    <2> QED
      BY <2>1, EnqueueInv
  <1>5. CASE flushPendingMutations \/ FlushedAll \/ AnswerNotStored
    BY <1>1, <1>2, <1>5 DEF Same, SameFlush, flushPendingMutations, FlushedAll, AnswerNotStored, FlushEnds, FlushOff, history
  <1>6. CASE FlushCreate
    <2>1. Same
      BY <1>6 DEF FlushCreate, Same
    <2> QED
      BY <1>1, <1>6, <2>1, FlushCreateInv
  <1>7. CASE _applyWithConflictResolution
    <2>1. Same
      BY <1>7 DEF _applyWithConflictResolution, Same, history
    <2> QED
      BY <1>1, <1>7, <2>1, ApplyInv
  <1>8. CASE DropLocal \/ PutSynced \/ _fetchServerItem \/ RefuseCreate
    <2>1. Same
      BY <1>8 DEF DropLocal, PutSynced, _fetchServerItem, RefuseCreate, Same, history
    <2> QED
      BY <1>1, <1>8, <2>1, OtherFlushInv
  <1>9. CASE _retargetPendingMutations \/ _rebasePendingMutations \/ _deleteMutation
    BY <1>9, RetargetInv, RebaseInv, DeleteInv
  <1>10. CASE SyncStep
    BY <1>1, <1>2, <1>10 DEF Same, SameFlush, SyncStep, syncInventoryItems, SeePending, GetItems, clearAll,
       _replaceCache, history, FlushOff
  <1>11. CASE Others \/ Connect \/ Disconnect \/ UNCHANGED vars
    <2>1. UNCHANGED <<queue, resent, fl>>
      BY <1>11, OthersDo DEF Connect, Disconnect, vars, history
    <2> QED
      BY <1>1, <1>2, <2>1 DEF Same, SameFlush
  <1>12. CASE cleanupOrphanedItems
    <2>1. queue' = queue /\ FlushOff /\ resent \subseteq resent'
      BY <1>12 DEF cleanupOrphanedItems, FlushOff
    <2> QED
      BY <2>1, KeptInv
  <1> QED
    BY <1>3, <1>4, <1>5, <1>6, <1>7, <1>8, <1>9, <1>10, <1>11, <1>12 DEF Next, FlushStep

LEMMA SyncInvStep ==
  ASSUME TypeOK, TypeOK', CreationsInv, SyncInv, [Next]_vars
  PROVE  SyncInv'
  BY LaterStep, OpStepInv, RowsStepInv, AnswersStepInv, QueueStepInv DEF SyncInv

----------------------------------------
(* The histories.                                                          *)
LEMMA ForgetIs ==
  ASSUME NEW h \in Histories, NEW t \in Things, NEW columns
  PROVE  /\ Forget(h, t, columns) \in Histories
         /\ \A u \in Things, c \in Columns :
              Forget(h, t, columns)[u][c] = IF u = t /\ c \in columns THEN Null ELSE h[u][c]
  <1>1. PICK row : row = [c \in Columns |-> IF c \in columns THEN Null ELSE h[t][c]]
    OBVIOUS
  <1>2. row \in [Columns -> HistoryVals]
    BY <1>1 DEF Histories, HistoryVals
  <1>3. Forget(h, t, columns) = [h EXCEPT ![t] = row]
    BY <1>1 DEF Forget, Histories
  <1> QED
    BY <1>1, <1>2, <1>3 DEF Histories

LEMMA ThingIsOne ==
  ASSUME ServerOK, NEW i, IsId(i)
  PROVE  Thing(i) \in Things
  <1>1. Thing(i) \in 0..ops /\ ops \in 0..MaxOps /\ MaxOps \in Nat
    BY ThingIs, OfflineSyncAssumption DEF ServerOK
  <1> QED
    BY <1>1 DEF Things

LEMMA BeginThing ==
  ASSUME TypeOK, TypeOK', createInventoryItem \/ updateItem \/ updateItemStatus
  PROVE  LET t == IF op'.action = "create" THEN ops + 1 ELSE Thing(op'.id)
         IN  t \in Things /\ Thing(op'.id) = t /\ Thing(op.id)' = t
  <1>1. /\ server' = server /\ ops' = ops + 1 /\ ops' \in 0..MaxOps /\ ops \in Nat /\ MaxOps \in Nat
        /\ op'.action = "create" => op'.id = - (ops + 1)
        /\ op'.action # "create" => op'.id \in DOMAIN local
    BY BeginDoes, OfflineSyncAssumption DEF TypeOK, ServerOK
  <1>2. CASE op'.action = "create"
    BY <1>1, <1>2 DEF Thing, Things
  <1>3. CASE op'.action # "create"
    <2>1. IsId(op'.id)
      BY <1>1, <1>3 DEF TypeOK, IsTable
    <2>2. Thing(op'.id) \in Things
      BY <2>1, ThingIsOne DEF TypeOK
    <2> QED
      BY <1>1, <1>3, <2>2 DEF Thing
  <1> QED
    BY <1>2, <1>3

(* The others' values are only forgotten, but for what others change.      *)
LEMMA TheirsShrink ==
  ASSUME TypeOK, TypeOK', [Next]_vars, theirs \in Histories
  PROVE  /\ theirs' \in Histories
         /\ ~ Others => \A t \in Things, c \in Columns : theirs'[t][c] \in {theirs[t][c], Null}
         /\ createInventoryItem \/ updateItem \/ updateItemStatus \/ (KeepLocally /\ op' # NoOp) =>
              \A c \in op'.dirty \cap Columns : theirs'[Thing(op.id)'][c] = Null
         /\ doubled \subseteq doubled' /\ resent \subseteq resent'
  <1>1. CASE createInventoryItem \/ updateItem \/ updateItemStatus
    <2>1. PICK t, columns : /\ t = (IF op'.action = "create" THEN ops + 1 ELSE Thing(op'.id)) /\ columns = op'.dirty
                            /\ theirs' = Forget(theirs, t, columns) /\ doubled' = doubled /\ resent' = resent
      BY <1>1, BeginDoes
    <2>2. t \in Things /\ Thing(op.id)' = t
      BY <1>1, <2>1, BeginThing
    <2> HIDE <1>1
    <2> QED
      BY <2>1, <2>2, ForgetIs
  <1>2. CASE KeepLocally
    <2>1. UNCHANGED <<server, doubled, resent>> /\ IsId(op.id)
      BY <1>2, KeepDoes
    <2>2. CASE op' = NoOp
      BY <1>2, <2>1, <2>2, KeepDoes DEF NoOp
    <2>3. CASE op' # NoOp
      <3>1. PICK t, columns : /\ t = Thing(op.id) /\ columns = op'.dirty /\ theirs' = Forget(theirs, t, columns)
                              /\ op'.id = op.id
        BY <1>2, <2>3, KeepDoes
      <3>2. t \in Things /\ Thing(op.id)' = t
        <4>1. Thing(op.id) \in Things
          BY <2>1, ThingIsOne DEF TypeOK
        <4> QED
          BY <2>1, <3>1, <4>1 DEF Thing
      <3> HIDE <1>2
      <3> QED
        BY <2>1, <3>1, <3>2, ForgetIs
    <2> QED
      BY <2>2, <2>3
  <1>3. CASE Others
    <2>1. UNCHANGED <<doubled, resent, op>>
      BY <1>3, OthersDo
    <2>2. PICK i \in DOMAIN server, c \in Columns, v \in HistoryVals : OtherChanges(i, c, v)
      BY <1>3 DEF Others, Columns, HistoryVals
    <2>3. theirs' = [theirs EXCEPT ![server[i].thing][c] = IF BeingChanged(server[i].thing, c) THEN Null ELSE v]
      BY <2>2 DEF OtherChanges
    <2>4. theirs' \in Histories
      <3>1. PICK w \in HistoryVals : w = IF BeingChanged(server[i].thing, c) THEN Null ELSE v
        BY <2>2 DEF HistoryVals
      <3> QED
        BY <2>3, <3>1 DEF Histories
    <2>5. ~ (createInventoryItem \/ updateItem \/ updateItemStatus \/ (KeepLocally /\ op' # NoOp))
      BY <2>1, BeginDoes, KeepDoes
    <2> QED
      BY <1>3, <2>1, <2>4, <2>5
  <1>4. CASE UNCHANGED theirs /\ doubled \subseteq doubled' /\ resent \subseteq resent'
             /\ ~ (createInventoryItem \/ updateItem \/ updateItemStatus \/ KeepLocally \/ Others)
    BY <1>4
  <1>5. CASE ~ (createInventoryItem \/ updateItem \/ updateItemStatus \/ KeepLocally \/ Others)
    <2>1. UNCHANGED theirs /\ doubled \subseteq doubled' /\ resent \subseteq resent'
      <3>1. CASE SendCreate \/ SendChange
        BY <3>1, SendCreateDoes, SendChangeDoes
      <3>2. CASE _cacheItems \/ RevertStatus
        BY <3>2 DEF _cacheItems, RevertStatus, history
      <3>3. CASE _enqueue
        BY <3>3, EnqueueDoes
      <3>4. CASE flushPendingMutations \/ FlushStep
        <4>1. CASE FlushCreate \/ AnswerNotStored
          BY <4>1, FlushCreateDoes, NotStoredDoes
        <4>2. CASE _deleteMutation
          BY <4>2, DeleteDoes
        <4> QED
          BY <3>4, <4>1, <4>2 DEF flushPendingMutations, FlushStep, FlushedAll, _retargetPendingMutations, DropLocal,
             _applyWithConflictResolution, RefuseCreate, _fetchServerItem, _rebasePendingMutations,
             PutSynced, history
      <3>5. CASE SyncStep \/ Connect \/ Disconnect \/ UNCHANGED vars
        BY <3>5 DEF SyncStep, syncInventoryItems, SeePending, GetItems, clearAll, _replaceCache, Connect, Disconnect,
           vars, history
      <3>6. CASE cleanupOrphanedItems
        BY <3>6 DEF cleanupOrphanedItems
      <3> QED
        BY <1>5, <3>1, <3>2, <3>3, <3>4, <3>5, <3>6 DEF Next, OpStep
    <2> QED
      BY <1>4, <1>5, <2>1
  <1> QED
    BY <1>1, <1>2, <1>3, <1>5

LEMMA TheirsMadeInit == Init => TheirsMade
  BY DEF Init, TheirsMade, Nothing, Histories, HistoryVals

LEMMA TheirsMadeStep ==
  ASSUME TypeOK, TypeOK', [Next]_vars, TheirsMade
  PROVE  TheirsMade'
  <1>1. theirs' \in Histories /\ (~ Others => \A t \in Things, c \in Columns : theirs'[t][c] \in {theirs[t][c], Null})
    BY TheirsShrink DEF TheirsMade
  <1>2. Made \subseteq Made'
    BY LaterStep DEF Later, Made
  <1>3. CASE ~ Others
    BY <1>1, <1>2, <1>3 DEF TheirsMade
  <1>4. CASE Others
    <2>1. PICK i \in DOMAIN server, d \in Columns, v \in HistoryVals :
            theirs' = [theirs EXCEPT ![server[i].thing][d] = IF BeingChanged(server[i].thing, d) THEN Null ELSE v]
      BY <1>4, OthersDo
    <2>2. \A t \in Things, c \in Columns : theirs'[t][c] # Null => t \in Made
      <3> TAKE t \in Things, c \in Columns
      <3>1. CASE t = server[i].thing
        BY <3>1 DEF Made
      <3>2. CASE t # server[i].thing
        BY <2>1, <3>2 DEF TheirsMade, Histories
      <3> QED
        BY <3>1, <3>2
    <2> QED
      BY <1>1, <1>2, <2>2 DEF TheirsMade
  <1> QED
    BY <1>3, <1>4

----------------------------------------
(* What others gave is kept.                                               *)
LEMMA ShowsStill ==
  ASSUME TypeOK, TypeOK', Later, NEW i \in DOMAIN server, NEW c, NEW row,
         server'[i].vals[c] = server[i].vals[c], NotAhead(i, row), Shows(row, i, c)
  PROVE  StillShows(row, i, c)
  <1>1. server[i].version \in Nat \ {0} /\ i \in DOMAIN server' /\ server'[i].version \in Nat \ {0}
    BY ServerItem, LaterItem DEF TypeOK, Later
  <1>2. row.version \in 1..server[i].version
    BY DEF NotAhead
  <1>3. server'[i] = server[i] \/ server[i].version < server'[i].version
    BY DEF Later
  <1> QED
    BY <1>1, <1>2, <1>3 DEF Shows, StillShows

LEMMA HonestShows ==
  ASSUME NEW i, NEW c, NEW row, Honest(i, row)
  PROVE  Shows(row, i, c)
  BY DEF Honest, Fresh, Shows

(* A value that is kept is shown after a step by all that has not changed. *)
LEMMA PartsStill ==
  ASSUME TypeOK, TypeOK', SyncInv, Later, NEW i \in DOMAIN server, NEW c \in Columns, TheirsAre(i, c),
         server'[i].vals[c] = server[i].vals[c]
  PROVE  /\ UNCHANGED op \/ op' = NoOp => OpShows(i, c)'
         /\ UNCHANGED queue /\ (Carried => Carried') => QueueShows(i, c)'
         /\ \A k \in DOMAIN queue : queue[k].id = i => (Shows(queue[k], i, c) => StillShows(queue[k], i, c))
         /\ c \in Fields /\ i \in DOMAIN local => StillShows(local[i], i, c)
         /\ c \in Fields /\ i \in DOMAIN sy.snapshot => StillShows(sy.snapshot[i], i, c)
         /\ Calling /\ op.id = i => (Shows(op.row, i, c) => StillShows(op.row, i, c))
  <1>1. \A j : IsId(j) => Thing(j)' = Thing(j)
    BY StillHonest DEF TypeOK
  <1>2. i \in DOMAIN server' /\ server'[i].thing = server[i].thing
    BY DEF Later
  <1>3. \A k \in DOMAIN queue : queue[k].id = i => (Shows(queue[k], i, c) => StillShows(queue[k], i, c))
    BY ShowsStill DEF SyncInv, QueueInv, MutationOK
  <1>4. /\ c \in Fields /\ i \in DOMAIN local => StillShows(local[i], i, c)
        /\ c \in Fields /\ i \in DOMAIN sy.snapshot => StillShows(sy.snapshot[i], i, c)
    BY ShowsStill DEF SyncInv, RowsInv, TheirsAre, TablesShow
  <1>5. Calling /\ op.id = i => (Shows(op.row, i, c) => StillShows(op.row, i, c))
    BY ShowsStill DEF SyncInv, OpInv
  <1>6. UNCHANGED op \/ op' = NoOp => OpShows(i, c)'
    <2>1. CASE op' = NoOp
      BY <2>1 DEF OpShows, NoOp, Calling
    <2>2. CASE UNCHANGED op
      <3>1. op.at # "idle" => IsId(op.id)
        BY DEF TypeOK, OpOK
      <3>2. op.at # "idle" /\ Thing(op.id)' = server'[i].thing => c \notin op.dirty
        <4>1. PICK j : j = op.id
          OBVIOUS
        <4>2. op.at # "idle" => Thing(j)' = Thing(j)
          BY <1>1, <3>1, <4>1
        <4>3. Thing(op.id)' = Thing(j)'
          BY <2>2, <4>1 DEF Thing
        <4> QED
          BY <1>2, <4>1, <4>2, <4>3 DEF TheirsAre, OpShows
      <3> QED
        BY <1>5, <2>2, <3>2 DEF TheirsAre, OpShows, Calling, Shows, StillShows
    <2> QED
      BY <2>1, <2>2
  <1>7. ASSUME UNCHANGED queue, Carried => Carried' PROVE QueueShows(i, c)'
    <2>1. \A k \in DOMAIN queue : IsId(queue[k].id)
      BY DEF TypeOK, IsQueue
    <2>2. \A k \in DOMAIN queue : Thing(queue[k].id)' = Thing(queue[k].id)
      <3> TAKE k \in DOMAIN queue
      <3>1. PICK j : j = queue[k].id
        OBVIOUS
      <3>2. Thing(j)' = Thing(j)
        BY <1>1, <2>1, <3>1
      <3>3. Thing(queue[k].id)' = Thing(j)'
        BY <1>7, <3>1, SMTT(30) DEF Thing
      <3> QED
        BY <3>1, <3>2, <3>3
    <2> QED
      BY <1>7, <1>2, <1>3, <2>2 DEF TheirsAre, QueueShows, Shows, StillShows
  <1> QED
    BY <1>3, <1>4, <1>5, <1>6, <1>7

(* The value is not changed but by another member.                         *)
LEMMA TheirValueStep ==
  ASSUME TypeOK, TypeOK', SyncInv, Later, [Next]_vars, ~ Others,
         NEW i \in DOMAIN server, NEW c \in Columns, TheirsAre(i, c)
  PROVE  server'[i].vals[c] = server[i].vals[c]
  <1>1. CASE server' = server
    BY <1>1
  <1>2. CASE SendCreate \/ FlushCreate \/ AnswerNotStored
    BY <1>2, SendCreateDoes, FlushCreateDoes, NotStoredDoes DEF Makes
  <1>3. CASE SendChange
    <2>1. SUFFICES ASSUME Alters(op.id, SetOf(op.action), op.row.vals), op.row.version = server[op.id].version,
                          op.id = i, c \in SetOf(op.action)
                   PROVE  server'[i].vals[c] = server[i].vals[c]
      BY <1>3, SendChangeDoes DEF Alters
    <2>2. op.at = "send" /\ op.action \in {"update", "status_update"} /\ Thing(op.id) = server[i].thing /\ i \in Nat
      BY <1>3, <2>1, SendChangeDoes, ServerItem DEF Thing, TypeOK
    <2>3. CASE op.action = "update"
      <3>1. Shows(op.row, i, c)
        BY <2>1, <2>2, <2>3 DEF TheirsAre, OpShows, Calling, SetOf
      <3> QED
        BY <2>1, <3>1 DEF Alters, Shows
    <2>4. CASE op.action = "status_update"
      BY <2>1, <2>2, <2>4 DEF TheirsAre, OpShows, SyncInv, OpInv, SetOf
    <2> QED
      BY <2>2, <2>3, <2>4
  <1>4. CASE _applyWithConflictResolution
    <2> DEFINE m == queue[1]
               again == fl.at = "resend"
               vals == IF again THEN resolve(fl.row.vals, m.vals, m.base, m.dirty) ELSE m.vals
               version == IF again THEN fl.row.version ELSE m.version
    <2>1. /\ fl.at \in {"send", "resend"} /\ 1 \in DOMAIN queue /\ m.action \in {"update", "status_update"}
          /\ (Alters(m.id, SetOf(m.action), vals) /\ server[m.id].version = version) \/ server' = server
      BY <1>4, ApplyDoes
    <2>2. SUFFICES ASSUME Alters(m.id, SetOf(m.action), vals), server[m.id].version = version,
                          m.id = i, c \in SetOf(m.action)
                   PROVE  server'[i].vals[c] = server[i].vals[c]
      BY <2>1 DEF Alters
    <2>3. Thing(m.id) = server[i].thing /\ i \in Nat
      BY <2>2, ServerItem DEF Thing, TypeOK
    <2>4. c \notin m.dirty
      BY <2>1, <2>3 DEF TheirsAre, QueueShows
    <2>5. server'[i].vals[c] = vals[c]
      BY <2>2 DEF Alters
    <2>6. CASE again
      <3>1. Honest(m.id, fl.row)
        BY <2>1, <2>6 DEF SyncInv, FlushInv
      <3>2. fl.row.vals = server[i].vals
        BY <2>2, <2>6, <3>1 DEF Honest, Fresh
      <3>3. vals[c] = fl.row.vals[c]
        BY <2>4, <2>6 DEF resolve
      <3> QED
        BY <2>5, <3>2, <3>3
    <2>7. CASE ~ again
      <3>1. ~ Carried
        BY <2>1 DEF Carried
      <3>2. m.action = "update"
        BY <2>1, <2>2, <2>4 DEF SetOf, SyncInv, QueueInv, MutationOK
      <3>3. Shows(m, i, c)
        BY <2>1, <2>2, <3>1, <3>2 DEF TheirsAre, QueueShows, SetOf
      <3> QED
        BY <2>2, <2>5, <2>7, <3>3 DEF Shows
    <2> QED
      BY <2>6, <2>7
  <1>5. CASE createInventoryItem \/ updateItem \/ updateItemStatus
    BY <1>1, <1>5, BeginDoes, SMTT(30)
  <1> QED
    BY <1>1, <1>2, <1>3, <1>4, <1>5 DEF Next, vars, OpStep, FlushStep, SyncStep, _cacheItems, RevertStatus,
       KeepLocally, _enqueue, flushPendingMutations, FlushedAll, _retargetPendingMutations, DropLocal,
       RefuseCreate, _fetchServerItem, _rebasePendingMutations, PutSynced, _deleteMutation,
       syncInventoryItems, SeePending, GetItems, clearAll, _replaceCache, Connect, Disconnect, cleanupOrphanedItems

(* The user's call.                                                        *)
LEMMA TheirCallStep ==
  ASSUME TypeOK, TypeOK', SyncInv, Later, [Next]_vars, ~ Others, theirs \in Histories,
         NEW i \in DOMAIN server, NEW c \in Columns, TheirsAre(i, c), server'[i].vals[c] = server[i].vals[c],
         theirs'[server[i].thing][c] # Null
  PROVE  OpShows(i, c)'
  <1>1. i \in DOMAIN server' /\ server'[i].thing = server[i].thing /\ i \in Nat \ {0}
    BY ServerItem DEF Later, TypeOK
  <1>2. UNCHANGED op \/ op' = NoOp => OpShows(i, c)'
    BY PartsStill
  <1>3. Calling /\ op.id = i => (Shows(op.row, i, c) => StillShows(op.row, i, c))
    BY PartsStill
  <1>4. ASSUME createInventoryItem \/ updateItem \/ updateItemStatus \/ (KeepLocally /\ op' # NoOp)
        PROVE  Thing(op.id)' = server'[i].thing => c \notin op'.dirty
    BY <1>1, <1>4, TheirsShrink
  <1>5. CASE createInventoryItem \/ updateItem \/ updateItemStatus
    <2>1. SUFFICES ASSUME c \in Fields, op'.action = "update", op'.id = i
                   PROVE  StillShows(op'.row, i, c)
      BY <1>4, <1>5 DEF OpShows, StillShows, Shows
    <2>2. /\ server' = server /\ i \in DOMAIN local
          /\ \E f, v : op'.dirty = {f} /\ Varies(op'.row, local[i], f, v)
      BY <1>5, <2>1, BeginDoes
    <2>3. c \notin op'.dirty
      <3>1. Thing(op.id)' = server'[i].thing
        BY <1>1, <2>1 DEF Thing
      <3> QED
        BY <1>4, <1>5, <3>1
    <2>4. StillShows(local[i], i, c)
      BY <2>1, <2>2, PartsStill
    <2> QED
      BY <2>2, <2>3, <2>4 DEF Varies, StillShows
  <1>6. CASE SendCreate
    <2>1. /\ op.at = "send" /\ op.action = "create" /\ op.id < 0
          /\ op = [at |-> op.at, action |-> op.action, id |-> op.id, row |-> op.row, base |-> op.base, dirty |-> op.dirty]
      BY <1>6, SendCreateDoes DEF TypeOK, OpOK
    <2>2. Thing(op.id) # server[i].thing
      <3>1. c \in op.dirty
        BY <2>1 DEF SyncInv, OpInv, Calling
      <3> QED
        BY <2>1, <3>1 DEF TheirsAre, OpShows
    <2>3. Thing(op.id) = - op.id
      BY <2>1 DEF Thing
    <2>4. \/ /\ op'.action = "create" /\ op'.id \in Nat \ {0} /\ server'[op'.id].thing = - op.id
          \/ op'.action = "create" /\ op'.id = op.id
      <3>1. CASE NextOp("keep")
        BY <2>1, <3>1 DEF NextOp
      <3>2. CASE ~ NextOp("keep")
        <4>1. PICK n : /\ Makes(n, - op.id, op.row.vals)
                       /\ op' = [op EXCEPT !.at = "cache", !.id = n, !.row = Row(Created(- op.id, op.row.vals).vals, 1)]
          BY <1>6, <3>2, SendCreateDoes
        <4>2. op'.id = n /\ op'.action = "create"
          BY <2>1, <4>1
        <4> QED
          BY <4>1, <4>2, SMTT(30) DEF Makes, Created
      <3> QED
        BY <3>1, <3>2
    <2>5. Thing(op.id)' = - op.id
      BY <2>1, <2>4 DEF Thing
    <2> QED
      BY <1>1, <2>2, <2>3, <2>4, <2>5 DEF OpShows
  <1>7. CASE SendChange
    <2>1. /\ op.at = "send" /\ IsId(op.id)
          /\ op = [at |-> op.at, action |-> op.action, id |-> op.id, row |-> op.row, base |-> op.base, dirty |-> op.dirty]
      BY <1>7, SendChangeDoes DEF TypeOK, OpOK
    <2>2. \/ op' = NoOp
          \/ /\ op'.action = op.action /\ op'.id = op.id /\ op'.dirty = op.dirty
             /\ op'.at \in {"keep", "queue", "send"} => op'.row = op.row
      <3>1. \/ \E row : op' = [op EXCEPT !.at = "cache", !.row = row]
            \/ op' = NoOp
            \/ NextOp("keep") \/ NextOp("queue") \/ NextOp("revert")
        BY <1>7, SendChangeDoes
      <3>2. CASE \E row : op' = [op EXCEPT !.at = "cache", !.row = row]
        BY <2>1, <3>2
      <3>3. CASE NextOp("keep") \/ NextOp("queue") \/ NextOp("revert")
        BY <2>1, <3>3 DEF NextOp
      <3> QED
        BY <3>1, <3>2, <3>3
    <2>3. CASE op' # NoOp
      <3>1. PICK j : j = op.id /\ Thing(j)' = Thing(j)
        BY <2>1, StillHonest DEF TypeOK
      <3>2. Thing(op.id)' = Thing(op.id)
        BY <2>2, <2>3, <3>1 DEF Thing
      <3>3. Thing(op.id)' = server'[i].thing => c \notin op'.dirty
        BY <1>1, <2>1, <2>2, <2>3, <3>2 DEF TheirsAre, OpShows
      <3>4. c \in Fields /\ Calling' /\ op'.action = "update" /\ op'.id = i => StillShows(op'.row, i, c)
        BY <1>3, <2>1, <2>2, <2>3 DEF TheirsAre, OpShows, Calling
      <3> QED
        BY <3>3, <3>4 DEF OpShows, StillShows, Shows
    <2> QED
      BY <1>2, <2>2, <2>3
  <1>8. CASE KeepLocally
    <2>1. CASE op' # NoOp
      <3>1. /\ op.at = "keep" /\ op'.action = op.action /\ op'.id = op.id
            /\ op'.row.version = op.row.version
            /\ \A d \in Fields : op'.row.vals[d] = op.row.vals[d]
        BY <1>8, <2>1, KeepDoes
      <3>2. c \in Fields /\ Calling' /\ op'.action = "update" /\ op'.id = i => StillShows(op'.row, i, c)
        BY <1>3, <3>1 DEF TheirsAre, OpShows, Calling, StillShows
      <3> QED
        BY <1>4, <1>8, <2>1, <3>2 DEF OpShows, StillShows, Shows
    <2> QED
      BY <1>2, <2>1
  <1> QED
    BY <1>2, <1>5, <1>6, <1>7, <1>8 DEF Next, vars, OpStep, FlushStep, SyncStep, _cacheItems, RevertStatus, _enqueue,
       flushPendingMutations, FlushedAll, FlushCreate, _retargetPendingMutations, DropLocal,
       _applyWithConflictResolution, AnswerNotStored, RefuseCreate, _fetchServerItem, _rebasePendingMutations,
       PutSynced, _deleteMutation, syncInventoryItems, SeePending, GetItems, clearAll, _replaceCache, Connect,
       Disconnect, cleanupOrphanedItems

(* The queue.                                                              *)
LEMMA TheirQueueStep ==
  ASSUME TypeOK, TypeOK', SyncInv, Later, [Next]_vars, ~ Others,
         NEW i \in DOMAIN server, NEW c \in Columns, TheirsAre(i, c), server'[i].vals[c] = server[i].vals[c],
         server[i].thing \notin resent'
  PROVE  QueueShows(i, c)'
  <1>1. i \in DOMAIN server' /\ server'[i].thing = server[i].thing /\ i \in Nat \ {0}
    BY ServerItem DEF Later, TypeOK
  <1>2. UNCHANGED queue /\ (Carried => Carried') => QueueShows(i, c)'
    BY PartsStill
  <1>3. \A k \in DOMAIN queue : queue[k].id = i => (Shows(queue[k], i, c) => StillShows(queue[k], i, c))
    BY PartsStill
  <1>4. \A k \in DOMAIN queue :
          /\ Thing(queue[k].id) = server[i].thing => c \notin queue[k].dirty
          /\ c \in Fields /\ queue[k].action = "update" /\ queue[k].id = i /\ (Carried => k # 1) => StillShows(queue[k], i, c)
    BY <1>3 DEF TheirsAre, QueueShows
  <1>5. ASSUME server' = server,
               \A k \in DOMAIN queue' :
                 /\ Thing(queue'[k].id) = server[i].thing => c \notin queue'[k].dirty
                 /\ c \in Fields /\ queue'[k].action = "update" /\ queue'[k].id = i /\ (Carried' => k # 1)
                    => StillShows(queue'[k], i, c)
        PROVE  QueueShows(i, c)'
    BY <1>5 DEF QueueShows, Thing, Shows, StillShows
  <1>6. CASE createInventoryItem \/ updateItem \/ updateItemStatus
    <2>1. UNCHANGED <<queue, fl>>
      BY <1>6, BeginDoes
    <2> QED
      BY <1>2, <2>1 DEF Carried
  <1>7. CASE _enqueue
    <2> DEFINE n == Len(queue) + 1
               m == queue'[n]
    <2>1. /\ op.at = "queue" /\ UNCHANGED <<server, fl>>
          /\ DOMAIN queue' = DOMAIN queue \cup {n} /\ \A k \in DOMAIN queue : queue'[k] = queue[k]
          /\ m.action = op.action /\ m.id = op.id /\ m.vals = op.row.vals /\ m.version = op.row.version
          /\ m.dirty = IF op.action = "create" THEN {} ELSE op.dirty
      BY <1>7, EnqueueDoes
    <2>2. Thing(op.id) = server[i].thing => c \notin m.dirty
      BY <2>1 DEF TheirsAre, OpShows
    <2>3. c \in Fields /\ m.action = "update" /\ m.id = i => StillShows(m, i, c)
      BY <2>1 DEF TheirsAre, OpShows, Calling, Shows, StillShows
    <2>4. \A k \in DOMAIN queue' :
            /\ Thing(queue'[k].id) = server[i].thing => c \notin queue'[k].dirty
            /\ c \in Fields /\ queue'[k].action = "update" /\ queue'[k].id = i /\ (Carried' => k # 1)
               => StillShows(queue'[k], i, c)
      <3> TAKE k \in DOMAIN queue'
      <3>1. CASE k \in DOMAIN queue
        BY <1>4, <2>1, <3>1 DEF Carried
      <3>2. CASE k = n
        BY <2>1, <2>2, <2>3, <3>2
      <3> QED
        BY <2>1, <3>1, <3>2
    <2> QED
      BY <1>5, <2>1, <2>4
  <1>8. CASE OpStep
    <2>1. CASE ~ _enqueue
      <3>1. UNCHANGED <<queue, fl>>
        BY <1>8, <2>1 DEF OpStep, SendCreate, SendChange, _cacheItems, RevertStatus, KeepLocally
      <3> QED
        BY <1>2, <3>1 DEF Carried
    <2> QED
      BY <1>7, <2>1
  <1>9. CASE SyncStep \/ flushPendingMutations \/ FlushedAll \/ Connect \/ Disconnect \/ UNCHANGED vars
    <2>1. UNCHANGED queue /\ (UNCHANGED fl \/ fl.at \in {"off", "send"})
      BY <1>9 DEF SyncStep, syncInventoryItems, SeePending, GetItems, clearAll, _replaceCache, flushPendingMutations,
         FlushedAll, Connect, Disconnect, vars
    <2> QED
      BY <1>2, <2>1 DEF Carried
  <1>10. CASE FlushCreate \/ AnswerNotStored \/ _applyWithConflictResolution
    <2>1. UNCHANGED queue /\ fl.at \in {"send", "resend"}
      BY <1>10, FlushCreateDoes, NotStoredDoes, ApplyDoes
    <2> QED
      BY <1>2, <2>1 DEF Carried
  <1>11. CASE DropLocal \/ PutSynced \/ _fetchServerItem \/ RefuseCreate
    <2>1. UNCHANGED queue /\ (fl.at \in {"drop", "fetch", "send"} \/ fl'.at = "pop")
      BY <1>11 DEF DropLocal, PutSynced, _fetchServerItem, RefuseCreate, NextFlush, TypeOK, FlushOK
    <2> QED
      BY <1>2, <2>1 DEF Carried
  <1>12. CASE _retargetPendingMutations
    <2>1. /\ fl.at = "retarget" /\ UNCHANGED server /\ DOMAIN queue' = DOMAIN queue
      BY <1>12, RetargetDoes
    <2>2. PICK k \in fl.todo :
                /\ k \in DOMAIN queue
                /\ \A j \in DOMAIN queue : j # k => queue'[j] = queue[j]
                /\ Readdressed(queue[k], queue'[k], fl.got,
                               IF queue[k].action = "create" THEN queue[k].version ELSE fl.row.version)
      BY <1>12, RetargetDoes
    <2>3. /\ fl.row.version = 1 /\ Thing(fl.from) = server[fl.got].thing /\ queue[k].id = fl.from
      BY <2>1, <2>2 DEF SyncInv, FlushInv
    <2>4. fl.got \in DOMAIN server /\ fl.got \in Nat \ {0}
      BY <2>1, ServerItem DEF TypeOK, FlushOK
    <2>5. Thing(queue'[k].id) = Thing(queue[k].id) /\ queue'[k].dirty = queue[k].dirty
      BY <2>2, <2>3, <2>4 DEF Readdressed, Thing
    <2>6. queue'[k].action = "update" => StillShows(queue'[k], i, c)
      BY <2>1, <2>2, <2>3 DEF TheirsAre, Readdressed, StillShows
    <2>7. ~ Carried
      BY <2>1 DEF Carried
    <2>8. \A j \in DOMAIN queue' :
            /\ Thing(queue'[j].id) = server[i].thing => c \notin queue'[j].dirty
            /\ c \in Fields /\ queue'[j].action = "update" /\ queue'[j].id = i /\ (Carried' => j # 1)
               => StillShows(queue'[j], i, c)
      <3> TAKE j \in DOMAIN queue'
      <3>1. CASE j = k
        BY <1>4, <2>2, <2>5, <2>6, <3>1
      <3>2. CASE j # k
        BY <1>4, <2>1, <2>2, <2>7, <3>2
      <3> QED
        BY <3>1, <3>2
    <2> QED
      BY <1>5, <2>1, <2>8
  <1>13. CASE _rebasePendingMutations
    <2>1. /\ fl.at = "rebase" /\ UNCHANGED <<server, resent>> /\ DOMAIN queue' = DOMAIN queue
      BY <1>13, RebaseDoes DEF history
    <2>2. PICK k \in fl.todo :
                /\ k \in DOMAIN queue
                /\ \A j \in DOMAIN queue : j # k => queue'[j] = queue[j]
                /\ Readdressed(queue[k], queue'[k], queue[k].id, fl.row.version)
                /\ fl'.at \in {"rebase", "put"}
      BY <1>13, RebaseDoes
    <2>3. queue[1].action # "create" /\ queue[1].id = fl.got /\ queue[k].id = fl.got
      BY <2>1, <2>2 DEF SyncInv, FlushInv
    <2>4. 1 \in DOMAIN queue /\ k \in Nat \ {0}
      <3>1. queue # <<>>
        BY <2>1 DEF TypeOK, FlushOK
      <3>2. DOMAIN queue = 1..Len(queue) /\ Len(queue) \in Nat
        BY Indices DEF TypeOK, IsQueue
      <3> QED
        BY <2>2, <3>1, <3>2, HeadIs DEF TypeOK
    <2>5. queue[k].action = "update" /\ queue[k].id = i => k = 1
      <3> SUFFICES ASSUME queue[k].action = "update", queue[k].id = i, k # 1 PROVE FALSE
        OBVIOUS
      <3>1. Thing(queue[k].id) \in resent
        BY <2>2, <2>3, <2>4 DEF SyncInv, ResentInv
      <3>2. Thing(queue[k].id) = server[i].thing
        BY <1>1 DEF Thing
      <3> QED
        BY <2>1, <3>1, <3>2
    <2>6. Carried /\ Carried'
      BY <2>1, <2>2 DEF Carried
    <2>7. \A j \in DOMAIN queue' :
            /\ Thing(queue'[j].id) = server[i].thing => c \notin queue'[j].dirty
            /\ c \in Fields /\ queue'[j].action = "update" /\ queue'[j].id = i /\ (Carried' => j # 1)
               => StillShows(queue'[j], i, c)
      <3> TAKE j \in DOMAIN queue'
      <3>1. CASE j = k
        BY <1>4, <2>2, <2>5, <2>6, <3>1 DEF Readdressed
      <3>2. CASE j # k
        BY <1>4, <2>1, <2>2, <2>6, <3>2
      <3> QED
        BY <3>1, <3>2
    <2> QED
      BY <1>5, <2>1, <2>7
  <1>14. CASE _deleteMutation
    <2>1. /\ UNCHANGED server
          /\ \A k \in DOMAIN queue' : k \in Nat \ {0} /\ k + 1 \in DOMAIN queue /\ queue'[k] = queue[k + 1]
      BY <1>14, DeleteDoes
    <2>2. \A k \in DOMAIN queue' : k + 1 # 1
      BY <2>1
    <2> QED
      BY <1>4, <1>5, <2>1, <2>2
  <1>15. CASE cleanupOrphanedItems
    <2>1. /\ UNCHANGED <<server, queue>>
          /\ Carried /\ Head(queue).action = "update" => Thing(Head(queue).id) \in resent'
      BY <1>15 DEF cleanupOrphanedItems
    <2>2. 1 \in DOMAIN queue => queue[1] = Head(queue)
      <3>1. queue = <<>> => DOMAIN queue = {}
        OBVIOUS
      <3> QED
        BY <3>1, HeadIs DEF TypeOK
    <2>3. Thing(i) = server[i].thing
      BY <1>1 DEF Thing
    <2>4. \A k \in DOMAIN queue' :
            /\ Thing(queue'[k].id) = server[i].thing => c \notin queue'[k].dirty
            /\ c \in Fields /\ queue'[k].action = "update" /\ queue'[k].id = i /\ (Carried' => k # 1)
               => StillShows(queue'[k], i, c)
      <3> TAKE k \in DOMAIN queue'
      <3>1. CASE Carried /\ k = 1
        BY <1>4, <2>1, <2>2, <2>3, <3>1
      <3>2. CASE ~ (Carried /\ k = 1)
        BY <1>4, <2>1, <3>2
      <3> QED
        BY <3>1, <3>2
    <2> QED
      BY <1>5, <2>1, <2>4
  <1> QED
    BY <1>6, <1>8, <1>9, <1>10, <1>11, <1>12, <1>13, <1>14, <1>15 DEF Next, FlushStep

(* The tables.                                                             *)
LEMMA TheirTablesStep ==
  ASSUME TypeOK, TypeOK', SyncInv, Later, [Next]_vars, ~ Others, theirs \in Histories,
         NEW i \in DOMAIN server, NEW c \in Columns, TheirsAre(i, c), server'[i].vals[c] = server[i].vals[c],
         theirs'[server[i].thing][c] # Null
  PROVE  TablesShow(i, c)'
  <1> SUFFICES ASSUME c \in Fields
               PROVE  /\ i \in DOMAIN local' => StillShows(local'[i], i, c)
                      /\ i \in DOMAIN sy'.snapshot => StillShows(sy'.snapshot[i], i, c)
    BY DEF TablesShow, Shows, StillShows
  <1>1. c # "status" /\ i \in Nat \ {0} /\ server'[i].thing = server[i].thing
    BY OfflineSyncAssumption, ServerItem DEF TypeOK, Later
  <1>2. i \in DOMAIN local => StillShows(local[i], i, c)
    BY PartsStill
  <1>3. i \in DOMAIN sy.snapshot => StillShows(sy.snapshot[i], i, c)
    BY PartsStill
  <1>4. UNCHANGED sy \/ sy' = NoSync => (i \in DOMAIN sy'.snapshot => StillShows(sy'.snapshot[i], i, c))
    BY <1>3 DEF NoSync
  <1>5. \A row : Honest(i, row) => StillShows(row, i, c)
    BY ShowsStill, HonestShows, HonestIsNotAhead
  <1>6. ASSUME UNCHANGED sy \/ sy' = NoSync, i \in DOMAIN local' => i \in DOMAIN local /\ local'[i] = local[i]
        PROVE  /\ i \in DOMAIN local' => StillShows(local'[i], i, c)
               /\ i \in DOMAIN sy'.snapshot => StillShows(sy'.snapshot[i], i, c)
    BY <1>2, <1>4, <1>6
  <1>7. CASE createInventoryItem \/ updateItem \/ updateItemStatus
    <2>1. UNCHANGED sy
      BY <1>7, BeginDoes
    <2>2. \/ UNCHANGED local
          \/ /\ op'.id \in DOMAIN local /\ local' = [local EXCEPT ![op'.id] = op'.row]
             /\ \E s : Varies(op'.row, local[op'.id], "status", s)
      BY <1>7, BeginDoes
    <2>3. CASE op'.id = i /\ i \in DOMAIN local /\ local' = [local EXCEPT ![op'.id] = op'.row]
                /\ \E s : Varies(op'.row, local[op'.id], "status", s)
      <3>1. local'[i] = op'.row
        BY <2>3
      <3>2. op'.row.version = local[i].version /\ op'.row.vals[c] = local[i].vals[c]
        BY <1>1, <2>3 DEF Varies
      <3> QED
        BY <1>2, <1>4, <2>1, <2>3, <3>1, <3>2 DEF StillShows
    <2>4. CASE ~ (op'.id = i /\ i \in DOMAIN local /\ local' = [local EXCEPT ![op'.id] = op'.row]
                  /\ \E s : Varies(op'.row, local[op'.id], "status", s))
      <3>1. i \in DOMAIN local' => i \in DOMAIN local /\ local'[i] = local[i]
        BY <2>2, <2>4
      <3> QED
        BY <1>6, <2>1, <3>1
    <2> QED
      BY <2>3, <2>4
  <1>8. CASE _cacheItems
    <2>1. UNCHANGED sy /\ local' = With(local, op.id, op.row) /\ op.at = "cache"
      BY <1>8 DEF _cacheItems
    <2>2. op.id = i => StillShows(op.row, i, c)
      BY <1>5, <2>1 DEF SyncInv, OpInv
    <2> QED
      BY <1>2, <1>4, <2>1, <2>2 DEF With
  <1>9. CASE RevertStatus
    <2>1. UNCHANGED sy
      BY <1>9 DEF RevertStatus
    <2>2. i \in DOMAIN local' => i \in DOMAIN local /\ local'[i].version = local[i].version
                                 /\ local'[i].vals[c] = local[i].vals[c]
      <3>1. CASE op.id \in DOMAIN local
        <4>a. PICK j \in DOMAIN local : \E s : local' = [local EXCEPT ![j].vals["status"] = s]
          BY <1>9, <3>1 DEF RevertStatus
        <4>1. PICK s : local' = [local EXCEPT ![j].vals["status"] = s]
          BY <4>a
        <4>2. local[j] \in Rows
          BY DEF TypeOK, IsTable
        <4>3. PICK vals : vals = [local[j].vals EXCEPT !["status"] = s]
          OBVIOUS
        <4>4. vals[c] = local[j].vals[c]
          BY <1>1, <4>2, <4>3 DEF Rows, AllVals
        <4>5. local' = [local EXCEPT ![j] = [local[j] EXCEPT !.vals = vals]]
          BY <4>1, <4>3
        <4>6. [local[j] EXCEPT !.vals = vals] = [vals |-> vals, version |-> local[j].version]
          BY <4>2 DEF Rows
        <4> QED
          BY <4>4, <4>5, <4>6
      <3>2. CASE op.id \notin DOMAIN local
        BY <1>9, <3>2 DEF RevertStatus
      <3> QED
        BY <3>1, <3>2
    <2> QED
      BY <1>2, <1>4, <2>1, <2>2 DEF StillShows
  <1>10. CASE KeepLocally
    <2>1. UNCHANGED sy /\ op.at = "keep" /\ op.action \in Actions
          /\ \/ UNCHANGED local
             \/ /\ local' = With(local, op.id, op'.row) /\ op'.row.version = op.row.version
                /\ \A d \in Fields : op'.row.vals[d] = op.row.vals[d]
      BY <1>10, KeepDoes
    <2>2. op.id = i => op.action = "update"
      <3>1. op.action = "create" => - op.id \in 1..ops /\ op.id \in Int /\ ops \in Nat
        BY <2>1, OfflineSyncAssumption DEF TypeOK, OpOK, ServerOK
      <3>2. op.action # "status_update"
        BY <2>1 DEF SyncInv, OpInv
      <3> QED
        BY <1>1, <2>1, <3>1, <3>2 DEF Actions
    <2>3. op.id = i => StillShows(op.row, i, c)
      BY <2>1, <2>2, PartsStill DEF TheirsAre, OpShows, Calling
    <2>4. i \in DOMAIN local' => StillShows(local'[i], i, c)
      BY <1>2, <2>1, <2>3 DEF With, StillShows
    <2> QED
      BY <1>4, <2>1, <2>4
  <1>11. CASE DropLocal \/ cleanupOrphanedItems
    <2>1. (UNCHANGED sy \/ sy' = NoSync) /\ \E ids : local' = Without(local, ids)
      BY <1>11 DEF DropLocal, cleanupOrphanedItems
    <2> QED
      BY <1>6, <2>1 DEF Without
  <1>12. CASE PutSynced
    <2>1. UNCHANGED sy /\ local' = With(local, fl.got, fl.row) /\ fl.at = "put"
      BY <1>12 DEF PutSynced
    <2>2. fl.got = i => StillShows(fl.row, i, c)
      BY <1>5, <2>1 DEF SyncInv, FlushInv
    <2> QED
      BY <1>2, <1>4, <2>1, <2>2 DEF With
  <1>13. CASE syncInventoryItems \/ SeePending \/ GetItems
    <2>1. UNCHANGED local /\ (sy'.snapshot = sy.snapshot \/ sy' = NoSync)
      BY <1>13 DEF syncInventoryItems, SeePending, GetItems, NextSync, TypeOK, SyncOK
    <2> QED
      BY <1>2, <1>3, <1>4, <2>1
  <1>14. CASE clearAll
    <2>1. /\ local' = <<>>
          /\ \A j \in DOMAIN sy'.snapshot : j \in DOMAIN local /\ sy'.snapshot[j] = local[j]
      BY <1>14 DEF clearAll, Emptied, TypeOK, SyncOK, getAllItems
    <2> QED
      BY <1>2, <2>1
  <1>15. CASE _replaceCache
    <2> DEFINE filled == [j \in DOMAIN local \cup DOMAIN sy.remote |->
                            IF j \in DOMAIN sy.remote THEN sy.remote[j] ELSE local[j]]
    <2>1. sy' = NoSync /\ server' = server /\ local' = FoldLeft(Reapplied, filled, sy.remaining)
      BY <1>15 DEF _replaceCache
    <2>2. PICK n, P : n = server'[i].version /\ P = {server'[i].vals[c]}
      OBVIOUS
    <2>3. IsTable(filled) /\ IsQueue(sy.remaining)
      BY DEF TypeOK, SyncOK, IsTable
    <2>4. Shown(filled, i, c, n, P)
      <3>1. i \in DOMAIN sy.remote => StillShows(sy.remote[i], i, c)
        BY <1>5 DEF SyncInv, RowsInv
      <3> QED
        BY <1>2, <2>2, <3>1 DEF Shown, StillShows
    <2>5. Shown(sy.snapshot, i, c, n, P)
      BY <1>3, <2>2 DEF Shown, StillShows
    <2>6. n # 1
      BY <2>1, <2>2 DEF TheirsAre
    <2> HIDE DEF filled
    <2>7. Shown(local', i, c, n, P)
      BY <2>1, <2>3, <2>4, <2>5, <2>6, FilledShown
    <2> QED
      BY <1>4, <2>1, <2>2, <2>7 DEF Shown, StillShows
  <1>16. CASE SendCreate \/ SendChange \/ _enqueue
    BY <1>6, <1>16 DEF SendCreate, SendChange, _enqueue
  <1>17. CASE FlushStep
    <2>1. CASE ~ (DropLocal \/ PutSynced)
      BY <1>6, <1>17, <2>1 DEF FlushStep, FlushedAll, FlushCreate, _retargetPendingMutations,
         _applyWithConflictResolution, AnswerNotStored, RefuseCreate, _fetchServerItem, _rebasePendingMutations,
         _deleteMutation
    <2> QED
      BY <1>11, <1>12, <2>1
  <1>18. CASE flushPendingMutations \/ Connect \/ Disconnect \/ UNCHANGED vars
    BY <1>6, <1>18 DEF flushPendingMutations, Connect, Disconnect, vars
  <1> QED
    BY <1>7, <1>8, <1>9, <1>10, <1>11, <1>13, <1>14, <1>15, <1>16, <1>17, <1>18
       DEF Next, OpStep, SyncStep

(* A change by another member.                                             *)
LEMMA TheirChange ==
  ASSUME TypeOK, TypeOK', SyncInv, MadeOnce, Later, Others, TheirsInv, theirs \in Histories,
         NEW i \in DOMAIN server, NEW c \in Columns,
         server[i].thing \notin doubled \cup resent, theirs'[server[i].thing][c] # Null
  PROVE  TheirsAre(i, c)'
  <1>1. UNCHANGED <<answers, local, queue, op, fl, sy, mine, doubled, resent, ops>>
    BY OthersDo
  <1>2. PICK j \in DOMAIN server, d \in Columns, v \in HistoryVals :
          /\ Alters(j, {d}, [e \in Columns |-> v])
          /\ theirs' = [theirs EXCEPT ![server[j].thing][d] =
                          IF BeingChanged(server[j].thing, d) THEN Null ELSE v]
    BY OthersDo
  <1>3. server[i].version \in Nat \ {0} /\ i \in DOMAIN server' /\ server'[i].thing = server[i].thing
        /\ server[i].thing \in Things /\ server[j].thing \in Things
    <2>1. \A k \in DOMAIN server : server[k].thing \in Things
      <3> TAKE k \in DOMAIN server
      <3>1. IsId(k) /\ k \in Nat \ {0}
        BY ServerItem DEF TypeOK, IsId
      <3> QED
        BY <3>1, ThingIsOne DEF TypeOK, Thing
    <2> QED
      BY <2>1, ServerItem DEF TypeOK, Later
  <1>4. CASE i = j /\ c = d
    <2>1. /\ server'[i].vals[c] = v /\ server'[i].version = server[i].version + 1
      BY <1>2, <1>4 DEF Alters
    <2>2. /\ ~ BeingChanged(server[i].thing, c)
          /\ theirs'[server[i].thing][c] = v
      BY <1>2, <1>3, <1>4 DEF Histories
    <2>3. \A row : NotAhead(i, row) => StillShows(row, i, c)
      BY <1>3, <2>1 DEF NotAhead, StillShows
    <2>4. OpShows(i, c)'
      <3>1. op.at # "idle" /\ Thing(op.id)' = server[i].thing => c \notin op.dirty
        <4>1. op.at # "idle" => IsId(op.id)
          BY DEF TypeOK, OpOK
        <4>2. PICK k : k = op.id
          OBVIOUS
        <4>3. op.at # "idle" => Thing(k)' = Thing(k)
          BY <4>1, <4>2, StillHonest DEF TypeOK
        <4>4. Thing(op.id)' = Thing(k)'
          BY <1>1, <4>2 DEF Thing
        <4> QED
          BY <2>2, <4>2, <4>3, <4>4 DEF BeingChanged
      <3>2. Calling /\ op.id = i => StillShows(op.row, i, c)
        BY <2>3 DEF SyncInv, OpInv
      <3> QED
        BY <1>1, <1>3, <3>1, <3>2 DEF OpShows, Calling, Shows, StillShows
    <2>5. QueueShows(i, c)'
      <3>1. \A k \in DOMAIN queue : Thing(queue[k].id)' = Thing(queue[k].id)
        <4> TAKE k \in DOMAIN queue
        <4>1. PICK l : l = queue[k].id
          OBVIOUS
        <4>2. IsId(l)
          BY <4>1 DEF TypeOK, IsQueue
        <4>3. Thing(l)' = Thing(l)
          BY <4>2, StillHonest DEF TypeOK
        <4>4. Thing(queue[k].id)' = Thing(l)'
          BY <1>1, <4>1 DEF Thing
        <4> QED
          BY <4>1, <4>3, <4>4
      <3>2. \A k \in DOMAIN queue : queue[k].id = i => StillShows(queue[k], i, c)
        BY <2>3 DEF SyncInv, QueueInv, MutationOK
      <3> QED
        BY <1>1, <1>3, <2>2, <3>1, <3>2 DEF QueueShows, BeingChanged, Shows, StillShows
    <2>6. TablesShow(i, c)'
      <3>1. /\ i \in DOMAIN local => StillShows(local[i], i, c)
            /\ i \in DOMAIN sy.snapshot => StillShows(sy.snapshot[i], i, c)
        BY <2>3 DEF SyncInv, RowsInv
      <3> QED
        BY <1>1, <3>1 DEF TablesShow, Shows, StillShows
    <2> QED
      BY <1>3, <2>1, <2>2, <2>4, <2>5, <2>6 DEF TheirsAre
  <1>5. CASE ~ (i = j /\ c = d)
    <2>1. server'[i].vals[c] = server[i].vals[c]
      BY <1>2, <1>5 DEF Alters
    <2>2. theirs'[server[i].thing][c] = theirs[server[i].thing][c]
      <3>1. CASE server[i].thing = server[j].thing
        <4>1. i = j
          BY <3>1 DEF MadeOnce
        <4> QED
          BY <1>2, <1>3, <1>5, <4>1 DEF Histories
      <3>2. CASE server[i].thing # server[j].thing
        BY <1>2, <1>3, <3>2 DEF Histories
      <3> QED
        BY <3>1, <3>2
    <2>3. TheirsAre(i, c)
      BY <2>2 DEF TheirsInv
    <2>4. /\ OpShows(i, c)' /\ QueueShows(i, c)'
      BY <1>1, <2>1, <2>3, PartsStill DEF Carried
    <2>5. /\ c \in Fields /\ i \in DOMAIN local => StillShows(local[i], i, c)
          /\ c \in Fields /\ i \in DOMAIN sy.snapshot => StillShows(sy.snapshot[i], i, c)
      BY <2>1, <2>3, PartsStill
    <2>6. TablesShow(i, c)'
      BY <1>1, <2>5 DEF TablesShow, Shows, StillShows
    <2>7. server'[i].version > 1
      <3>1. server'[i] = server[i] \/ server[i].version < server'[i].version
        BY DEF Later
      <3>2. server'[i].version \in Nat
        BY <1>3, LaterItem, SMTT(30) DEF TypeOK
      <3> QED
        BY <1>3, <2>3, <3>1, <3>2 DEF TheirsAre
    <2> QED
      BY <1>3, <2>1, <2>2, <2>3, <2>4, <2>6, <2>7 DEF TheirsAre
  <1> QED
    BY <1>4, <1>5

(* No step makes an item that others are known to have changed.            *)
LEMMA TheirsNew ==
  ASSUME TypeOK, TypeOK', SyncInv, CreationsInv, TheirsMade, Later, [Next]_vars,
         NEW i \in DOMAIN server', i \notin DOMAIN server, NEW c \in Columns,
         server'[i].thing \notin doubled', theirs'[server'[i].thing][c] # Null
  PROVE  FALSE
  <1>1. CASE DOMAIN server' = DOMAIN server
    BY <1>1
  <1>2. doubled \subseteq doubled'
    BY TheirsShrink DEF TheirsMade
  <1>3. CASE SendCreate
    <2>1. PICK n : Makes(n, - op.id, op.row.vals)
      BY <1>3, SendCreateDoes
    <2>2. i = n /\ server'[i].thing = - op.id
      BY <2>1 DEF Makes, Created
    <2>3. op.at = "send" /\ op.action = "create" /\ theirs' = theirs /\ - op.id \in 1..ops
      BY <1>3, SendCreateDoes
    <2>4. - op.id \in Things
      <3>1. ops \in 0..MaxOps /\ MaxOps \in Nat
        BY OfflineSyncAssumption DEF TypeOK, ServerOK
      <3> QED
        BY <2>3, <3>1 DEF Things
    <2>5. - op.id \in Made
      BY <2>2, <2>3, <2>4 DEF TheirsMade
    <2>6. - op.id \in doubled
      BY <2>3, <2>5 DEF CreationsInv, Creating
    <2> QED
      BY <1>2, <2>2, <2>6
  <1>4. CASE FlushCreate
    <2> DEFINE m == queue[1]
    <2>1. PICK n : Makes(n, m.key, m.vals) /\ m.key \notin DOMAIN answers
      BY <1>4, FlushCreateDoes
    <2>2. i = n /\ server'[i].thing = m.key
      BY <2>1 DEF Makes, Created
    <2>3. m.action = "create" /\ 1 \in DOMAIN queue /\ theirs' = theirs /\ m.key \in 0..ops
      BY <1>4, FlushCreateDoes DEF Mutations
    <2>4. m.key \in Things
      <3>1. ops \in 0..MaxOps /\ MaxOps \in Nat
        BY OfflineSyncAssumption DEF TypeOK, ServerOK
      <3> QED
        BY <2>3, <3>1 DEF Things
    <2>5. m.key \in Made /\ m.key \in Pending
      BY <2>2, <2>3, <2>4 DEF TheirsMade, Pending
    <2>6. m.key \in doubled
      BY <2>1, <2>5 DEF CreationsInv
    <2> QED
      BY <1>2, <2>2, <2>6
  <1>5. CASE createInventoryItem \/ updateItem \/ updateItemStatus
    BY <1>1, <1>5, BeginDoes
  <1>6. CASE SendChange \/ _applyWithConflictResolution \/ Others
    BY <1>1, <1>6, SendChangeDoes, ApplyDoes, OthersDo DEF Alters, ItemsKept
  <1>7. CASE AnswerNotStored
    <2>1. PICK n : Makes(n, queue[1].key, queue[1].vals) /\ queue[1].key \in doubled'
      BY <1>7, NotStoredDoes
    <2> QED
      BY <2>1 DEF Makes, Created
  <1> QED
    BY <1>1, <1>3, <1>4, <1>5, <1>6, <1>7 DEF Next, vars, OpStep, FlushStep, SyncStep, _cacheItems, RevertStatus,
       KeepLocally, _enqueue, flushPendingMutations, FlushedAll, _retargetPendingMutations, DropLocal,
       RefuseCreate, _fetchServerItem, _rebasePendingMutations, PutSynced, _deleteMutation,
       syncInventoryItems, SeePending, GetItems, clearAll, _replaceCache, Connect, Disconnect, cleanupOrphanedItems

LEMMA TheirsInvStep ==
  ASSUME TypeOK, TypeOK', SyncInv, CreationsInv, MadeOnce, TheirsMade, TheirsInv, [Next]_vars
  PROVE  TheirsInv'
  <1>1. SUFFICES ASSUME NEW i \in DOMAIN server', NEW c \in Columns,
                        server'[i].thing \notin doubled' \cup resent', theirs'[server'[i].thing][c] # Null
                 PROVE  TheirsAre(i, c)'
    BY DEF TheirsInv
  <1>2. Later
    BY LaterStep
  <1>3. i \in DOMAIN server
    BY <1>1, <1>2, TheirsNew
  <1>4. server'[i].thing = server[i].thing /\ server[i].version \in Nat /\ server'[i].version \in Nat
    BY <1>2, <1>3, ServerItem, LaterItem DEF Later, TypeOK
  <1>5. server[i].thing \notin doubled \cup resent /\ theirs \in Histories
    BY <1>1, <1>4, TheirsShrink DEF TheirsMade
  <1>6. CASE Others
    BY <1>1, <1>2, <1>3, <1>4, <1>5, <1>6, TheirChange
  <1>7. CASE ~ Others
    <2>1. server[i].thing \in Things
      <3>1. IsId(i) /\ i \in Nat \ {0}
        BY <1>3, ServerItem DEF TypeOK, IsId
      <3> QED
        BY <3>1, ThingIsOne DEF TypeOK, Thing
    <2>2. theirs'[server[i].thing][c] = theirs[server[i].thing][c]
      BY <1>1, <1>4, <1>5, <1>7, <2>1, TheirsShrink
    <2>3. TheirsAre(i, c)
      BY <1>1, <1>3, <1>4, <1>5, <2>2 DEF TheirsInv
    <2>4. server'[i].vals[c] = server[i].vals[c]
      BY <1>2, <1>3, <1>7, <2>3, TheirValueStep
    <2>5. OpShows(i, c)' /\ QueueShows(i, c)' /\ TablesShow(i, c)'
      BY <1>1, <1>2, <1>3, <1>4, <1>5, <1>7, <2>3, <2>4, TheirCallStep, TheirQueueStep, TheirTablesStep
    <2>6. server'[i].version > 1
      BY <1>2, <1>3, <1>4, <2>3 DEF Later, TheirsAre
    <2> QED
      BY <1>4, <2>2, <2>3, <2>4, <2>5, <2>6 DEF TheirsAre
  <1> QED
    BY <1>6, <1>7

LEMMA TheirsInvInit ==
  ASSUME Init
  PROVE  TheirsInv
  <1>1. 0 \in Things
    BY OfflineSyncAssumption DEF Things
  <1>2. \A i \in DOMAIN server : server[i].thing = 0
    BY DEF Init
  <1>3. \A c \in Columns : theirs[0][c] = Null
    BY <1>1 DEF Init, Nothing
  <1> QED
    BY <1>2, <1>3 DEF TheirsInv

(* What another member has changed, and the user has not, stays as it is   *)
(* on the server whatever the app queues, merges, sets to a new version    *)
(* and sends again, except for things of which a form is sent unmerged or  *)
(* which were made twice.                                                  *)
THEOREM OthersAreKeptHolds == Spec => []OthersAreKept
  <1> DEFINE Inv == TypeOK /\ CreationsOK /\ SyncInv /\ TheirsMade /\ TheirsInv
  <1>1. Init => Inv
    BY TypesInit, CreationsInit, SyncInvInit, TheirsMadeInit, TheirsInvInit
  <1>2. Inv /\ [Next]_vars => Inv'
    <2> SUFFICES ASSUME Inv, [Next]_vars PROVE Inv'
      OBVIOUS
    <2>1. TypeOK'
      BY TypesStep
    <2>2. CreationsOK'
      BY <2>1, CreationsStep
    <2>3. SyncInv'
      BY <2>1, SyncInvStep DEF CreationsOK
    <2>4. TheirsMade'
      BY <2>1, TheirsMadeStep
    <2>5. TheirsInv'
      BY <2>1, TheirsInvStep DEF CreationsOK
    <2> QED
      BY <2>1, <2>2, <2>3, <2>4, <2>5
  <1>3. Inv => OthersAreKept
    BY DEF TheirsInv, TheirsAre, OthersAreKept
  <1> QED
    BY <1>1, <1>2, <1>3, PTL DEF Spec

----------------------------------------
(* Chains.                                                                 *)
LEMMA HasFirst ==
  ASSUME NEW L \in SUBSET Nat, L # {}
  PROVE  \E k \in L : FirstOf(L, k)
  BY LeastIs DEF FirstOf

LEMMA DropFirst ==
  ASSUME NEW L \in SUBSET Nat, NEW B, NEW V, NEW e, IsChain(L, B, V, e), NEW n, FirstOf(L, n)
  PROVE  IsChain(L \ {n}, B, V, e) /\ \A k \in L : Fits(L \ {n}, B, V, e, V[k])
  <1> DEFINE R == L \ {n}
  <1>1. n \in Nat /\ \A k \in R : k \in Nat /\ n < k
    BY DEF FirstOf
  <1>2. \A j, k \in R : Adjacent(R, j, k) => Adjacent(L, j, k)
    BY <1>1 DEF Adjacent
  <1>3. \A k \in R : LastOf(R, k) => LastOf(L, k)
    BY <1>1 DEF LastOf
  <1>4. IsChain(R, B, V, e)
    BY <1>2, <1>3 DEF IsChain
  <1>5. Fits(R, B, V, e, V[n])
    <2>1. CASE R = {}
      <3>1. LastOf(L, n)
        BY <1>1, <2>1 DEF LastOf, FirstOf
      <3> QED
        BY <2>1, <3>1 DEF IsChain, FirstOf, Fits
    <2>2. CASE R # {}
      <3>1. PICK k \in R : FirstOf(R, k)
        BY <2>2, HasFirst
      <3>2. Adjacent(L, n, k)
        BY <1>1, <3>1 DEF Adjacent, FirstOf
      <3>3. B[k] = V[n]
        BY <3>2 DEF IsChain, Adjacent
      <3> QED
        BY <3>1, <3>3 DEF Fits
    <2> QED
      BY <2>1, <2>2
  <1>6. \A k \in R : Fits(R, B, V, e, V[k])
    BY DEF Fits
  <1> QED
    BY <1>4, <1>5, <1>6

(* A first one that gives what it starts from is not missed.               *)
LEMMA DropIdle ==
  ASSUME NEW L \in SUBSET Nat, NEW R \in SUBSET L, NEW B, NEW V, NEW e, IsChain(L, B, V, e),
         \A k \in L \ R : FirstOf(L, k) /\ B[k] = V[k]
  PROVE  IsChain(R, B, V, e) /\ \A v : Fits(L, B, V, e, v) => Fits(R, B, V, e, v)
  <1>1. CASE L = R
    BY <1>1
  <1>2. CASE L # R
    <2>1. PICK n \in L \ R : FirstOf(L, n) /\ B[n] = V[n]
      BY <1>2
    <2>2. ASSUME NEW k \in L, FirstOf(L, k) PROVE k = n
      <3>1. k \in Nat /\ n \in Nat
        OBVIOUS
      <3>2. k <= n /\ n <= k
        BY <2>2, <2>1 DEF FirstOf
      <3> QED
        BY <3>1, <3>2
    <2>3. R = L \ {n}
      BY <2>1, <2>2
    <2>4. IsChain(R, B, V, e) /\ \A k \in L : Fits(R, B, V, e, V[k])
      BY <2>1, <2>3, DropFirst
    <2>5. ASSUME NEW v, Fits(L, B, V, e, v) PROVE Fits(R, B, V, e, v)
      <3>1. PICK k \in L : v = V[k]
        BY <2>1, <2>2, <2>5 DEF Fits
      <3> QED
        BY <2>4, <3>1
    <2> QED
      BY <2>4, <2>5
  <1> QED
    BY <1>1, <1>2

LEMMA AddLast ==
  ASSUME NEW L \in SUBSET Nat, NEW B, NEW V, NEW e, IsChain(L, B, V, e),
         NEW n \in Nat, \A k \in L : k < n, L # {} => B[n] = e
  PROVE  /\ IsChain(L \cup {n}, B, V, V[n])
         /\ \A v : Fits(L, B, V, e, v) /\ (L = {} => B[n] = e) => Fits(L \cup {n}, B, V, V[n], v)
  <1> DEFINE R == L \cup {n}
  <1>1. \A j, k \in R : Adjacent(R, j, k) => Adjacent(L, j, k) \/ (k = n /\ LastOf(L, j))
    BY DEF Adjacent, LastOf
  <1>2. \A k \in R : LastOf(R, k) => k = n
    BY DEF LastOf
  <1>3. \A k \in L : FirstOf(L, k) => FirstOf(R, k)
    BY DEF FirstOf
  <1>4. L = {} => FirstOf(R, n)
    BY DEF FirstOf
  <1>5. ASSUME NEW j \in R, NEW k \in R, Adjacent(R, j, k) PROVE B[k] = V[j]
    <2>1. CASE Adjacent(L, j, k)
      BY <2>1 DEF IsChain, Adjacent
    <2>2. CASE k = n /\ LastOf(L, j)
      <3>1. V[j] = e /\ L # {}
        BY <2>2 DEF IsChain, LastOf
      <3> QED
        BY <2>2, <3>1
    <2> QED
      BY <1>1, <1>5, <2>1, <2>2
  <1>7. IsChain(R, B, V, V[n])
    BY <1>2, <1>5 DEF IsChain
  <1>6. ASSUME NEW v, Fits(L, B, V, e, v), L = {} => B[n] = e
        PROVE  Fits(R, B, V, V[n], v)
    BY <1>3, <1>4, <1>6 DEF Fits
  <1> QED
    BY <1>6, <1>7

LEMMA AddFirst ==
  ASSUME NEW L \in SUBSET Nat, NEW B, NEW V, NEW e, IsChain(L, B, V, e),
         NEW n \in Nat, \A k \in L : n < k,
         \A k \in L : FirstOf(L, k) => B[k] = V[n], L = {} => V[n] = e
  PROVE  /\ IsChain(L \cup {n}, B, V, e)
         /\ \A v : Fits(L, B, V, e, v) => Fits(L \cup {n}, B, V, e, v)
  <1> DEFINE R == L \cup {n}
  <1>1. \A j, k \in R : Adjacent(R, j, k) => Adjacent(L, j, k) \/ (j = n /\ FirstOf(L, k))
    BY DEF Adjacent, FirstOf
  <1>2. \A k \in R : LastOf(R, k) => LastOf(L, k) \/ (k = n /\ L = {})
    BY DEF LastOf
  <1>3. ASSUME NEW j \in R, NEW k \in R, Adjacent(R, j, k) PROVE B[k] = V[j]
    <2>1. CASE Adjacent(L, j, k)
      BY <2>1 DEF IsChain, Adjacent
    <2>2. CASE j = n /\ FirstOf(L, k)
      BY <2>2 DEF FirstOf
    <2> QED
      BY <1>1, <1>3, <2>1, <2>2
  <1>5. ASSUME NEW k \in R, LastOf(R, k) PROVE V[k] = e
    <2>1. CASE LastOf(L, k)
      BY <2>1 DEF IsChain, LastOf
    <2>2. CASE k = n /\ L = {}
      BY <2>2
    <2> QED
      BY <1>2, <1>5, <2>1, <2>2
  <1>6. IsChain(R, B, V, e)
    BY <1>3, <1>5 DEF IsChain
  <1>4. ASSUME NEW v, Fits(L, B, V, e, v)
        PROVE  Fits(R, B, V, e, v)
    BY <1>4 DEF Fits, FirstOf
  <1> QED
    BY <1>4, <1>6

(* The same chain, of the same mutations at other places.                  *)
LEMMA MoveChain ==
  ASSUME NEW L \in SUBSET Nat, NEW R \in SUBSET Nat, NEW d \in {0, 1}, NEW B, NEW V, NEW C, NEW W, NEW e,
         \A k \in R : k + d \in L /\ C[k] = B[k + d] /\ W[k] = V[k + d],
         \A k \in L : k - d \in R,
         IsChain(L, B, V, e)
  PROVE  IsChain(R, C, W, e) /\ \A v : Fits(L, B, V, e, v) => Fits(R, C, W, e, v)
  <1>1. \A k \in L : k \in Nat /\ (k - d) + d = k
    OBVIOUS
  <1>2. ASSUME NEW j \in R, NEW k \in R, Adjacent(R, j, k) PROVE Adjacent(L, j + d, k + d)
    <2>1. ASSUME NEW l \in L PROVE l <= j + d \/ k + d <= l
      <3>1. l - d <= j \/ k <= l - d
        BY <1>2, <2>1 DEF Adjacent
      <3> QED
        BY <1>1, <3>1
    <2> QED
      BY <1>2, <2>1 DEF Adjacent
  <1>3. \A k \in R : LastOf(R, k) => LastOf(L, k + d)
    <2> SUFFICES ASSUME NEW k \in R, LastOf(R, k), NEW l \in L PROVE l <= k + d
      BY DEF LastOf
    <2>1. l - d <= k
      BY DEF LastOf
    <2>2. k \in Int /\ l \in Int /\ d \in Int
      OBVIOUS
    <2> QED
      BY ONLY <2>1, <2>2
  <1>4. \A k \in L : FirstOf(L, k) => FirstOf(R, k - d)
    <2> SUFFICES ASSUME NEW k \in L, FirstOf(L, k), NEW l \in R PROVE k - d <= l
      BY DEF FirstOf
    <2>1. k <= l + d
      BY DEF FirstOf
    <2>2. k \in Int /\ l \in Int /\ d \in Int
      OBVIOUS
    <2> QED
      BY ONLY <2>1, <2>2
  <1>5. IsChain(R, C, W, e)
    <2>1. ASSUME NEW j \in R, NEW k \in R, Adjacent(R, j, k) PROVE C[k] = W[j]
      <3>1. Adjacent(L, j + d, k + d) /\ j + d \in L /\ k + d \in L
        BY <1>2, <2>1
      <3>2. B[k + d] = V[j + d]
        BY <3>1 DEF IsChain
      <3> QED
        BY <3>2
    <2>2. ASSUME NEW k \in R, LastOf(R, k) PROVE W[k] = e
      <3>1. LastOf(L, k + d) /\ k + d \in L
        BY <1>3, <2>2
      <3>2. V[k + d] = e
        BY <3>1 DEF IsChain
      <3> QED
        BY <3>2
    <2> QED
      BY <2>1, <2>2 DEF IsChain
  <1>6. ASSUME NEW v, Fits(L, B, V, e, v) PROVE Fits(R, C, W, e, v)
    <2>1. CASE L = {}
      <3>1. R = {}
        BY <2>1
      <3> QED
        BY <1>6, <2>1, <3>1 DEF Fits
    <2>2. CASE L # {}
      <3>1. PICK k \in L : v = V[k] \/ (FirstOf(L, k) /\ v = B[k])
        BY <1>6, <2>2 DEF Fits
      <3>2. k - d \in R /\ W[k - d] = V[k] /\ C[k - d] = B[k]
        BY <1>1, <3>1
      <3> QED
        BY <1>4, <3>1, <3>2 DEF Fits
    <2> QED
      BY <2>1, <2>2
  <1> QED
    BY <1>5, <1>6

----------------------------------------
(* The promises: what a step makes of them.                                *)
LEMMA PromiseIs ==
  ASSUME mine \in Histories, NEW t \in Things, NEW columns, NEW vals \in AllVals, Promise(t, columns, vals)
  PROVE  /\ mine' \in Histories
         /\ \A u \in Things, c \in Columns :
              mine'[u][c] = IF u = t /\ c \in columns THEN (IF Overtaken(t, c) THEN Null ELSE vals[c]) ELSE mine[u][c]
  <1>1. PICK row : row = [c \in Columns |-> IF c \notin columns THEN mine[t][c]
                                            ELSE IF Overtaken(t, c) THEN Null ELSE vals[c]]
    OBVIOUS
  <1>2. \A c \in Columns : vals[c] \in HistoryVals
    BY DEF AllVals, HistoryVals
  <1>3. \A c \in Columns : row[c] \in HistoryVals
    BY <1>1, <1>2 DEF Histories, HistoryVals
  <1>4. row \in [Columns -> HistoryVals]
    BY <1>1, <1>3
  <1>5. mine' = [mine EXCEPT ![t] = row]
    BY <1>1 DEF Promise, Histories
  <1>6. \A u \in Things, c \in Columns : mine'[u][c] = IF u = t THEN row[c] ELSE mine[u][c]
    BY <1>5 DEF Histories
  <1> QED
    BY <1>1, <1>4, <1>5, <1>6 DEF Histories

LEMMA CallPromises ==
  ASSUME TypeOK, TypeOK', mine \in Histories
  PROVE  /\ SendCreate \/ SendChange => mine' \in Histories
         /\ SendCreate => mine' = mine \/ \A u \in Things, c \in Columns : u # - op.id => mine'[u][c] = mine[u][c]
         /\ SendChange => mine' = mine \/ \A u \in Things, c \in Columns :
                            u # Thing(op.id) \/ c \notin op.dirty => mine'[u][c] = mine[u][c]
  <1>1. ASSUME SendCreate
        PROVE  /\ mine' \in Histories
               /\ mine' = mine \/ \A u \in Things, c \in Columns : u # - op.id => mine'[u][c] = mine[u][c]
    <2>1. CASE mine' = mine
      BY <2>1
    <2>2. CASE mine' # mine
      <3>1. PICK t, vals : t = - op.id /\ t \in 1..ops /\ vals = Created(t, op.row.vals).vals /\ Promise(t, Columns, vals)
        BY <1>1, <2>2, SendCreateDoes
      <3>2. t \in Things /\ t \in 0..ops /\ op.row.vals \in AllVals
        <4>1. op.at = "send" /\ ops \in 0..MaxOps /\ MaxOps \in Nat
          BY <1>1, SendCreateDoes, OfflineSyncAssumption DEF TypeOK, ServerOK
        <4>2. op.row \in Rows
          BY <4>1 DEF TypeOK, OpOK
        <4> QED
          BY <3>1, <4>1, <4>2 DEF Things, Rows
      <3>3. Created(t, op.row.vals) \in Items
        BY <3>2, CreatedIs
      <3>4. vals \in AllVals
        BY <3>1, <3>3 DEF Items
      <3>5. /\ mine' \in Histories
            /\ \A u \in Things, c \in Columns :
                 mine'[u][c] = IF u = t /\ c \in Columns THEN (IF Overtaken(t, c) THEN Null ELSE vals[c]) ELSE mine[u][c]
        BY <3>1, <3>2, <3>4, PromiseIs
      <3> QED
        BY <3>1, <3>5
    <2> QED
      BY <2>1, <2>2
  <1>2. ASSUME SendChange
        PROVE  /\ mine' \in Histories
               /\ mine' = mine \/ \A u \in Things, c \in Columns :
                            u # Thing(op.id) \/ c \notin op.dirty => mine'[u][c] = mine[u][c]
    <2>1. CASE mine' = mine
      BY <2>1
    <2>2. CASE mine' # mine
      <3>1. PICK t, columns, vals : /\ t = Thing(op.id) /\ columns = op.dirty /\ vals = server'[op.id].vals
                                    /\ Promise(t, columns, vals)
                                    /\ Alters(op.id, SetOf(op.action), op.row.vals) /\ IsId(op.id)
        BY <1>2, <2>2, SendChangeDoes
      <3>2. t \in Things
        BY <3>1, ThingIsOne DEF TypeOK
      <3>3. op.id \in DOMAIN server'
        BY <3>1 DEF Alters, ItemsKept
      <3>4. vals \in AllVals
        <4>1. server' \in Seq(Items')
          BY DEF TypeOK, ServerOK, Items
        <4>2. server'[op.id] \in Items'
          BY <3>3, <4>1, Indices
        <4> QED
          BY <3>1, <4>2 DEF Items, AllVals
      <3>5. /\ mine' \in Histories
            /\ \A u \in Things, c \in Columns :
                 mine'[u][c] = IF u = t /\ c \in columns THEN (IF Overtaken(t, c) THEN Null ELSE vals[c]) ELSE mine[u][c]
        BY <3>2, <3>1, <3>4, PromiseIs
      <3> QED
        BY <3>1, <3>5
    <2> QED
      BY <2>1, <2>2
  <1> QED
    BY <1>1, <1>2

(* What a call promises when it is queued.                                 *)
LEMMA QueuePromises ==
  ASSUME TypeOK, TypeOK', mine \in Histories, _enqueue
  PROVE  LET t == Thing(op.id)
             kept(c) == IF c \in op.dirty THEN op.action = "create" \/ BuildsOn(t, c, op.base.vals[c])
                        ELSE PendingOf(t) = {} \/ c \notin SetBy(op.action) \/ op.row.vals[c] = mine[t][c]
         IN  /\ t \in Things /\ mine' \in Histories
             /\ \A u \in Things, c \in Columns :
                  mine'[u][c] = IF u # t THEN mine[u][c] ELSE IF ~ kept(c) THEN Null
                                ELSE IF c \in op.dirty THEN op.row.vals[c] ELSE mine[u][c]
  <1> DEFINE kept(t, c) == IF c \in op.dirty THEN op.action = "create" \/ BuildsOn(t, c, op.base.vals[c])
                           ELSE PendingOf(t) = {} \/ c \notin SetBy(op.action) \/ op.row.vals[c] = mine[t][c]
             value(t, c) == IF ~ kept(t, c) THEN Null ELSE IF c \in op.dirty THEN op.row.vals[c] ELSE mine[t][c]
  <1>1. PICK t : t = Thing(op.id)
    OBVIOUS
  <1>2. t \in Things /\ op.row.vals \in AllVals
    <2>1. IsId(op.id) /\ op.row \in Rows
      BY EnqueueDoes
    <2> QED
      BY <1>1, <2>1, ThingIsOne DEF TypeOK, Rows
  <1>3. mine' = [mine EXCEPT ![t] = [c \in Columns |-> value(t, c)]]
    BY <1>1, <1>2 DEF _enqueue, Histories
  <1>4. \A c \in Columns : value(t, c) \in HistoryVals
    BY <1>2 DEF Histories, HistoryVals, AllVals
  <1>5. PICK row : row = [c \in Columns |-> value(t, c)]
    OBVIOUS
  <1> HIDE DEF value
  <1>6. row \in [Columns -> HistoryVals] /\ \A c \in Columns : row[c] = value(t, c)
    BY <1>4, <1>5
  <1>7. mine' = [mine EXCEPT ![t] = row]
    BY <1>3, <1>5
  <1>8. mine' \in Histories /\ \A u \in Things, c \in Columns : mine'[u][c] = IF u # t THEN mine[u][c] ELSE value(t, c)
    BY <1>2, <1>6, <1>7 DEF Histories
  <1> QED
    BY <1>1, <1>2, <1>8 DEF value

(* Any other step only takes promises back.                                *)
LEMMA MineShrinks ==
  ASSUME TypeOK, TypeOK', [Next]_vars, mine \in Histories
  PROVE  /\ mine' \in Histories /\ touched \subseteq touched' /\ doubled \subseteq doubled'
         /\ ~ (SendCreate \/ SendChange \/ _enqueue) =>
              \A t \in Things, c \in Columns : mine'[t][c] \in {mine[t][c], Null}
  <1>1. CASE createInventoryItem \/ updateItem \/ updateItemStatus
    <2>1. PICK t, columns : /\ t = (IF op'.action = "create" THEN ops + 1 ELSE Thing(op'.id)) /\ columns = op'.dirty
                            /\ mine' = Forget(mine, t, columns) /\ doubled' = doubled /\ touched' = touched
      BY <1>1, BeginDoes
    <2>2. t \in Things
      BY <1>1, <2>1, BeginThing
    <2> HIDE <1>1
    <2> QED
      BY <2>1, <2>2, ForgetIs
  <1>2. CASE KeepLocally
    <2>1. UNCHANGED <<doubled, touched>> /\ IsId(op.id)
      BY <1>2, KeepDoes
    <2>2. CASE mine' = mine
      BY <2>1, <2>2
    <2>3. CASE mine' # mine
      <3>1. PICK t, columns : t = Thing(op.id) /\ mine' = Forget(mine, t, columns)
        BY <1>2, <2>3, KeepDoes
      <3>2. t \in Things
        BY <2>1, <3>1, ThingIsOne DEF TypeOK
      <3> HIDE <1>2
      <3> QED
        BY <2>1, <3>1, <3>2, ForgetIs
    <2> QED
      BY <2>2, <2>3
  <1>3. CASE _deleteMutation
    <2>1. UNCHANGED <<doubled, touched>> /\ 1 \in DOMAIN queue
      BY <1>3, DeleteDoes
    <2>2. CASE mine' = mine
      BY <2>1, <2>2
    <2>3. CASE mine' # mine
      <3>1. PICK t, columns : t = Thing(queue[1].id) /\ mine' = Forget(mine, t, columns)
        BY <1>3, <2>3, DeleteDoes
      <3>2. t \in Things
        BY <2>1, <3>1, ThingIsOne DEF TypeOK, IsQueue
      <3> HIDE <1>3
      <3> QED
        BY <2>1, <3>1, <3>2, ForgetIs
    <2> QED
      BY <2>2, <2>3
  <1>4. CASE cleanupOrphanedItems
    <2>1. doubled' = doubled /\ touched \subseteq touched'
      BY <1>4 DEF cleanupOrphanedItems
    <2>2. CASE mine' = mine
      BY <2>1, <2>2
    <2>3. CASE mine' # mine
      <3>1. PICK t, columns : t = Thing(Head(queue).id) /\ mine' = Forget(mine, t, columns) /\ Carried
        BY <1>4, <2>3 DEF cleanupOrphanedItems
      <3>2. queue # <<>> /\ queue \in Seq(Mutations)
        BY <3>1 DEF Carried, TypeOK, FlushOK, IsQueue
      <3>3. Head(queue) = queue[1] /\ 1 \in DOMAIN queue
        BY <3>2
      <3>4. t \in Things
        BY <3>1, <3>3, ThingIsOne DEF TypeOK, IsQueue
      <3> HIDE <1>4
      <3> QED
        BY <2>1, <3>1, <3>4, ForgetIs
    <2> QED
      BY <2>2, <2>3
  <1>5. CASE SendCreate \/ SendChange
    <2>1. touched' = touched /\ doubled \subseteq doubled'
      BY <1>5, SendCreateDoes, SendChangeDoes
    <2> QED
      BY <1>5, <2>1, CallPromises
  <1>6. CASE _enqueue
    <2>1. touched' = touched /\ doubled \subseteq doubled'
      BY <1>6, EnqueueDoes
    <2> QED
      BY <1>6, <2>1, QueuePromises
  <1>7. CASE UNCHANGED mine /\ touched \subseteq touched' /\ doubled \subseteq doubled'
    BY <1>7
  <1>8. CASE _cacheItems \/ RevertStatus \/ flushPendingMutations \/ FlushStep \/ SyncStep \/ Connect \/ Disconnect
             \/ Others \/ UNCHANGED vars
    <2>1. CASE _deleteMutation
      BY <1>3, <2>1
    <2>2. CASE ~ _deleteMutation
      <3>1. UNCHANGED mine /\ touched \subseteq touched' /\ doubled \subseteq doubled'
        <4>1. CASE _cacheItems \/ RevertStatus \/ flushPendingMutations \/ SyncStep \/ Connect \/ Disconnect \/ UNCHANGED vars
          BY <4>1 DEF _cacheItems, RevertStatus, flushPendingMutations, SyncStep, syncInventoryItems, SeePending, GetItems,
             clearAll, _replaceCache, Connect, Disconnect, vars, history
        <4>2. CASE Others
          BY <4>2, OthersDo
        <4>3. CASE FlushCreate \/ AnswerNotStored
          BY <4>3, FlushCreateDoes, NotStoredDoes
        <4>4. CASE FlushedAll \/ _retargetPendingMutations \/ DropLocal \/ _applyWithConflictResolution
                   \/ RefuseCreate \/ _fetchServerItem \/ _rebasePendingMutations \/ PutSynced
          BY <4>4 DEF FlushedAll, _retargetPendingMutations, DropLocal, _applyWithConflictResolution,
             RefuseCreate, _fetchServerItem, _rebasePendingMutations, PutSynced, history
        <4> QED
          BY <1>8, <2>2, <4>1, <4>2, <4>3, <4>4 DEF FlushStep
      <3> QED
        BY <1>7, <3>1
    <2> QED
      BY <2>1, <2>2
  <1> QED
    BY <1>1, <1>2, <1>4, <1>5, <1>6, <1>8 DEF Next, OpStep

----------------------------------------
(* What is about a promise stays so while nothing moves.                   *)
LEMMA QuietStep ==
  ASSUME TypeOK, [Next]_vars, ~ Moving
  PROVE  /\ UNCHANGED <<server, answers, queue, touched, doubled>>
         /\ Carried' <=> Carried
         /\ fl' = fl \/ (fl.at # "retarget" /\ fl'.at \notin {"retarget", "rebase"})
  <1>1. CASE createInventoryItem \/ updateItem \/ updateItemStatus
    BY <1>1, BeginDoes DEF Carried
  <1>2. CASE KeepLocally
    BY <1>2, KeepDoes DEF Carried
  <1>3. CASE _cacheItems \/ RevertStatus \/ Connect \/ Disconnect \/ UNCHANGED vars
    BY <1>3 DEF _cacheItems, RevertStatus, Connect, Disconnect, vars, history, Carried
  <1>4. CASE flushPendingMutations \/ FlushedAll \/ _fetchServerItem \/ PutSynced
    <2>1. UNCHANGED <<server, answers, queue, touched, doubled>> /\ fl.at \in {"off", "send", "fetch", "put"}
      BY <1>4 DEF flushPendingMutations, FlushedAll, _fetchServerItem, PutSynced, history
    <2>2. CASE flushPendingMutations
      BY <2>1, <2>2 DEF flushPendingMutations, NoFlush, Carried
    <2>3. CASE FlushedAll
      BY <2>1, <2>3 DEF FlushedAll, FlushEnds, NoFlush, Carried
    <2>4. CASE _fetchServerItem
      <3>1. fl'.at \in {"resend", "off"} /\ fl.at = "fetch"
        <4>1. DOMAIN fl = {"at", "from", "got", "row", "todo"}
          BY DEF TypeOK, FlushOK
        <4> QED
          <5>1. fl.at = "fetch"
            BY <2>4 DEF _fetchServerItem
          <5>2. FlushEnds \/ \E row : fl' = [fl EXCEPT !.at = "resend", !.row = row]
            <6> DEFINE now == Row(server[Head(queue).id].vals, server[Head(queue).id].version)
            <6>1. \/ fl' = [fl EXCEPT !.at = "resend", !.row = now]
                  \/ FlushEnds
              BY <2>4 DEF _fetchServerItem
            <6> QED
              BY <6>1
          <5>3. ASSUME NEW row, fl' = [fl EXCEPT !.at = "resend", !.row = row] PROVE fl'.at = "resend"
            BY <4>1, <5>3
          <5>4. FlushEnds => fl'.at = "off"
            BY DEF FlushEnds, NoFlush
          <5>5. PICK row : FlushEnds \/ fl' = [fl EXCEPT !.at = "resend", !.row = row]
            BY <5>2
          <5> QED
            BY <5>1, <5>3, <5>4, <5>5
      <3> QED
        BY <2>1, <3>1 DEF Carried
    <2>5. CASE PutSynced
      <3>1. fl'.at = "pop" /\ fl.at = "put"
        <4>1. DOMAIN fl = {"at", "from", "got", "row", "todo"}
          BY DEF TypeOK, FlushOK
        <4> QED
          BY <2>5, <4>1 DEF PutSynced, NextFlush
      <3> QED
        BY <2>1, <3>1 DEF Carried
    <2> QED
      BY <1>4, <2>2, <2>3, <2>4, <2>5
  <1>5. CASE SyncStep
    <2>1. UNCHANGED <<server, answers, queue, touched, doubled>>
      BY <1>5 DEF SyncStep, syncInventoryItems, SeePending, GetItems, clearAll, _replaceCache, history
    <2>2. fl' = fl \/ (fl.at = "off" /\ fl' = [NoFlush EXCEPT !.at = "send"])
      BY <1>5 DEF SyncStep, syncInventoryItems, SeePending, GetItems, clearAll, _replaceCache
    <2> QED
      BY <2>1, <2>2 DEF NoFlush, Carried
  <1> QED
    BY <1>1, <1>2, <1>3, <1>4, <1>5 DEF Next, OpStep, FlushStep, Moving

LEMMA RefusedMoves ==
  ASSUME NEW t, NEW k \in PendingOf(t), Refused(k), NEW n \in DOMAIN queue',
         queue'[n].id = queue[k].id, queue'[n].action = queue[k].action,
         \A j \in DOMAIN queue' : j < n /\ queue'[j].action = "create" =>
            ~ (queue'[j].id < 0) \/ \E i \in DOMAIN queue : i < k /\ queue[i].action = "create" /\ queue[i].id = queue'[j].id,
         fl'.at = "retarget" => n \notin fl'.todo
  PROVE  Doomed(t)'
  <1>1. Thing(queue[n].id)' = t /\ n \in PendingOf(t)'
    <2>1. queue[k].id < 0 /\ - queue[k].id = t
      BY DEF PendingOf, Thing, Refused
    <2>2. queue'[n].id < 0 /\ - queue'[n].id = t
      BY <2>1
    <2>3. Thing(queue[n].id)' = t
      BY <2>2 DEF Thing
    <2>5. n \in PendingOf(t)'
      BY <2>3 DEF PendingOf
    <2> QED
      BY <2>3, <2>5
  <1>2. Refused(n)'
    BY DEF Refused
  <1> QED
    BY <1>1, <1>2 DEF Doomed

LEMMA DoomedStays ==
  ASSUME TypeOK, TypeOK', SyncInv, mine \in Histories, [Next]_vars, NEW t \in Things, Doomed(t)
  PROVE  Doomed(t)' \/ \A c \in Columns : mine'[t][c] = Null
  <1>1. PICK k \in PendingOf(t) : Refused(k)
    BY DEF Doomed
  <1>2. k \in DOMAIN queue /\ Thing(queue[k].id) = t /\ DOMAIN queue \subseteq Nat \ {0} /\ DOMAIN queue' \subseteq Nat \ {0}
    BY DEF PendingOf, TypeOK, IsQueue
  <1>3. ASSUME queue' = queue, fl' = fl \/ fl'.at # "retarget"
        PROVE  Doomed(t)'
    <2>1. fl'.at = "retarget" => k \notin fl'.todo
      BY <1>1, <1>3 DEF Refused
    <2> QED
      BY <1>1, <1>2, <1>3, <2>1, RefusedMoves
  <1>4. CASE ~ Moving
    BY <1>3, <1>4, QuietStep
  <1>5. CASE SendCreate \/ SendChange \/ Others
    BY <1>3, <1>5, SendCreateDoes, SendChangeDoes, OthersDo
  <1>6. CASE DropLocal \/ cleanupOrphanedItems \/ _applyWithConflictResolution \/ AnswerNotStored \/ RefuseCreate
    <2>1. CASE DropLocal
      <3>1. queue' = queue /\ fl'.at = "put"
        <4>1. DOMAIN fl = {"at", "from", "got", "row", "todo"}
          BY SMTT(30) DEF TypeOK, FlushOK
        <4> QED
          BY <2>1, <4>1 DEF DropLocal, NextFlush
      <3> QED
        BY <1>3, <3>1
    <2>2. CASE cleanupOrphanedItems
      BY <1>3, <2>2 DEF cleanupOrphanedItems, NoFlush
    <2>3. CASE _applyWithConflictResolution
      <3>1. queue' = queue
        BY <2>3, ApplyDoes
      <3>2. fl'.at # "retarget"
        <4>1. DOMAIN fl = {"at", "from", "got", "row", "todo"}
          BY SMTT(30) DEF TypeOK, FlushOK
        <4>2. FlushOff => fl'.at \in {"off", "send"}
          BY DEF FlushOff, NoFlush
        <4>3. NextFlush("fetch") => fl'.at = "fetch"
          BY <4>1 DEF NextFlush
        <4>4. NextFlush("pop") => fl'.at = "pop"
          BY <4>1 DEF NextFlush
        <4>5. FlushOff \/ NextFlush("fetch") \/ NextFlush("pop") \/ fl'.at = "rebase"
          BY <2>3, ApplyDoes
        <4> QED
          BY <4>2, <4>3, <4>4, <4>5
      <3> QED
        BY <1>3, <3>1, <3>2
    <2>4. CASE AnswerNotStored
      BY <1>3, <2>4, NotStoredDoes DEF FlushOff, NoFlush
    <2>5. CASE RefuseCreate
      BY <1>3, <2>5, RefuseDoes
    <2> QED
      BY <1>6, <2>1, <2>2, <2>3, <2>4, <2>5
  <1>7. CASE FlushCreate
    <2>1. queue' = queue /\ 1 \in DOMAIN queue /\ queue[1].action = "create"
      BY <1>7, FlushCreateDoes
    <2>2. FlushOff \/ fl'.todo = {j \in DOMAIN queue : queue[j].id = queue[1].id}
      <3>1. FlushOff \/ \E id, row : fl' = [at |-> "retarget", from |-> queue[1].id, got |-> id, row |-> row,
                                           todo |-> {j \in DOMAIN queue : queue[j].id = queue[1].id}]
        BY <1>7, FlushCreateDoes
      <3> QED
        BY <3>1
    <2>3. fl'.at = "retarget" => k \notin fl'.todo
      <3>1. FlushOff => fl'.at # "retarget"
        BY DEF FlushOff, NoFlush
      <3>2. queue[k].id # queue[1].id
        BY <1>1, <1>2, <2>1 DEF Refused
      <3> QED
        BY <2>2, <3>1, <3>2
    <2> QED
      BY <1>1, <1>2, <2>1, <2>3, RefusedMoves
  <1>8. CASE _retargetPendingMutations
    <2>1. PICK j \in fl.todo :
              /\ j \in DOMAIN queue
              /\ \A i \in DOMAIN queue : i # j => queue'[i] = queue[i]
              /\ queue'[j].id = fl.got
              /\ fl'.todo = fl.todo \ {j}
      BY <1>8, RetargetDoes DEF Readdressed
    <2>2. fl.at = "retarget" /\ DOMAIN queue' = DOMAIN queue
      BY <1>8, RetargetDoes
    <2>3. fl.got \in DOMAIN server
      BY <2>2 DEF TypeOK, FlushOK
    <2>4. ~ (fl.got < 0)
      BY <2>3, ServerItem DEF TypeOK
    <2>5. k \notin fl.todo
      BY <1>1, <2>2 DEF Refused
    <2> QED
      BY <1>1, <1>2, <2>1, <2>2, <2>4, <2>5, RefusedMoves
  <1>9. CASE _rebasePendingMutations
    <2>1. PICK j \in fl.todo :
              /\ j \in DOMAIN queue
              /\ \A i \in DOMAIN queue : i # j => queue'[i] = queue[i]
              /\ queue'[j].id = queue[j].id /\ queue'[j].action = queue[j].action
              /\ fl'.at \in {"rebase", "put"}
      BY <1>9, RebaseDoes DEF Readdressed
    <2>2. DOMAIN queue' = DOMAIN queue
      BY <1>9, RebaseDoes
    <2>3. \A i \in DOMAIN queue : queue'[i].id = queue[i].id /\ queue'[i].action = queue[i].action
      BY <2>1
    <2> QED
      BY <1>1, <1>2, <2>1, <2>2, <2>3, RefusedMoves
  <1>10. CASE _deleteMutation
    <2>1. CASE k = 1
      <3>1. PICK columns : columns = Columns /\ mine' = Forget(mine, t, columns)
        BY <1>1, <1>2, <1>10, <2>1, DeleteDoes DEF Refused
      <3> HIDE <1>10
      <3> QED
        BY <3>1, ForgetIs
    <2>2. CASE k # 1
      <3>1. k - 1 \in DOMAIN queue' /\ queue'[k - 1] = queue[k]
        BY <1>2, <1>10, <2>2, DeleteDoes
      <3>2. \A j \in DOMAIN queue' : j + 1 \in DOMAIN queue /\ queue'[j] = queue[j + 1]
        BY <1>10, DeleteDoes
      <3>3. fl'.at # "retarget"
        BY <1>10, DeleteDoes DEF NoFlush
      <3>4. \A j \in DOMAIN queue' : j < k - 1 => j + 1 < k
        BY <1>2
      <3> QED
        BY <1>1, <3>1, <3>2, <3>3, <3>4, RefusedMoves
    <2> QED
      BY <2>1, <2>2
  <1>11. CASE _enqueue
    <2>1. /\ DOMAIN queue' = DOMAIN queue \cup {Len(queue) + 1} /\ Len(queue) \in Nat /\ DOMAIN queue = 1..Len(queue)
          /\ \A j \in DOMAIN queue : queue'[j] = queue[j]
          /\ fl' = fl
      BY <1>11, EnqueueDoes
    <2>2. \A j \in DOMAIN queue' : j < k => j \in DOMAIN queue
      BY <1>2, <2>1
    <2>3. fl'.at = "retarget" => k \notin fl'.todo
      BY <1>1, <2>1 DEF Refused
    <2> QED
      BY <1>1, <1>2, <2>1, <2>2, <2>3, RefusedMoves
  <1> QED
    BY <1>4, <1>5, <1>6, <1>7, <1>8, <1>9, <1>10, <1>11 DEF Moving

LEMMA GoneStays ==
  ASSUME Later, NEW t, Gone(t)
  PROVE  Gone(t)'
  <1>1. PICK i \in DOMAIN server : server[i].thing = t /\ server[i].vals["status"] = "gone"
    BY DEF Gone
  <1>2. i \in DOMAIN server' /\ server'[i].thing = t /\ server'[i].vals["status"] = "gone"
    BY <1>1 DEF Later
  <1> QED
    BY <1>2 DEF Gone

(* What is promised after a step was promised before it, but for what the  *)
(* step itself promises.                                                   *)
LEMMA PromisedBefore ==
  ASSUME TypeOK, TypeOK', SyncInv, mine \in Histories, [Next]_vars, NEW t \in Things, NEW c \in Columns, Promised(t, c)'
  PROVE  /\ t \notin doubled \cup undated /\ <<t, c>> \notin touched /\ ~ Doomed(t) /\ ~ Gone(t)
         /\ mine'[t][c] = mine[t][c] => Promised(t, c)
         /\ ~ (SendCreate \/ SendChange \/ _enqueue) => mine'[t][c] = mine[t][c]
  <1>1. t \notin doubled \cup undated /\ <<t, c>> \notin touched
    BY MineShrinks, LaterStep DEF Promised, Later
  <1>2. ~ Doomed(t)
    <2>1. ~ Doomed(t)' /\ mine'[t][c] # Null
      BY DEF Promised
    <2> QED
      BY <2>1, DoomedStays
  <1>3. ~ Gone(t)
    <2>1. ~ Gone(t)'
      BY DEF Promised
    <2> QED
      BY <2>1, LaterStep, GoneStays
  <1>4. mine'[t][c] # Null
    BY DEF Promised
  <1>5. ~ (SendCreate \/ SendChange \/ _enqueue) => mine'[t][c] = mine[t][c]
    BY <1>4, MineShrinks
  <1> QED
    BY <1>1, <1>2, <1>3, <1>4, <1>5 DEF Promised

----------------------------------------
(* The links of a chain.                                                   *)
LEMMA LinksNat ==
  ASSUME TypeOK, NEW t, NEW c
  PROVE  /\ Links(t, c) \subseteq Writes(t, c) /\ Writes(t, c) \subseteq PendingOf(t) /\ PendingOf(t) \subseteq DOMAIN queue
         /\ DOMAIN queue \subseteq Nat \ {0} /\ DOMAIN Bases(c) = DOMAIN queue /\ DOMAIN Vals(c) = DOMAIN queue
         /\ \A k \in DOMAIN queue : queue[k] \in Mutations /\ IsId(queue[k].id)
                                    /\ Bases(c)[k] = queue[k].base[c] /\ Vals(c)[k] = queue[k].vals[c]
  <1>1. queue \in Seq(Mutations) /\ \A k \in DOMAIN queue : IsId(queue[k].id)
    BY DEF TypeOK, IsQueue
  <1>2. DOMAIN queue \subseteq Nat \ {0} /\ \A k \in DOMAIN queue : queue[k] \in Mutations
    BY <1>1
  <1> QED
    BY <1>1, <1>2 DEF Links, Writes, PendingOf, Bases, Vals

LEMMA PendingStays ==
  ASSUME TypeOK, TypeOK', Later, NEW t
  PROVE  /\ \A k \in DOMAIN queue : Thing(queue[k].id) \in Nat
         /\ queue' = queue => PendingOf(t)' = PendingOf(t)
         /\ \A j : IsId(j) => Thing(j)' = Thing(j)
  <1>1. \A j : IsId(j) => Thing(j)' = Thing(j)
    BY StillHonest DEF TypeOK
  <1>2. \A k \in DOMAIN queue : Thing(queue[k].id) \in Nat
    <2> TAKE k \in DOMAIN queue
    <2>1. IsId(queue[k].id)
      BY DEF TypeOK, IsQueue
    <2>2. Thing(queue[k].id) \in Things
      BY <2>1, ThingIsOne DEF TypeOK
    <2> QED
      BY <2>2 DEF Things
  <1>3. ASSUME queue' = queue PROVE PendingOf(t)' = PendingOf(t)
    <2>1. \A k \in DOMAIN queue : Thing(queue[k].id)' = Thing(queue[k].id)
      <3> TAKE k \in DOMAIN queue
      <3>1. PICK j : j = queue[k].id
        OBVIOUS
      <3>2. Thing(j)' = Thing(j)
        BY <1>1, <3>1 DEF TypeOK, IsQueue
      <3>3. Thing(queue[k].id)' = Thing(j)'
        BY <1>3, <3>1 DEF Thing
      <3> QED
        BY <3>1, <3>2, <3>3
    <2> QED
      BY <1>3, <2>1 DEF PendingOf
  <1> QED
    BY <1>1, <1>2, <1>3

(* A pending form that does not change a column starts from what it gives. *)
LEMMA IdleBase ==
  ASSUME TypeOK, QueueInv, NEW k \in DOMAIN queue, queue[k].action # "create", NEW c \in Columns,
         c \in SetBy(queue[k].action), c \notin queue[k].dirty
  PROVE  c \in Fields /\ queue[k].action = "update" /\ queue[k].base[c] = queue[k].vals[c]
  <1>1. queue[k].action \in Actions /\ MutationOK(queue[k])
    BY LinksNat DEF Mutations, QueueInv
  <1>2. CASE queue[k].action = "status_update"
    BY <1>1, <1>2 DEF MutationOK, SetBy
  <1>3. CASE queue[k].action = "update"
    BY <1>1, <1>3 DEF MutationOK, SetBy
  <1> QED
    BY <1>1, <1>2, <1>3 DEF Actions

(* Nothing before it writes the column, once the item is made.             *)
LEMMA AloneIsFirst ==
  ASSUME TypeOK, NEW t \in Made, NEW c, NEW k \in DOMAIN queue, Alone(t, k)
  PROVE  \A j \in Writes(t, c) : k <= j
  <1> TAKE j \in Writes(t, c)
  <1>1. j \in PendingOf(t) /\ queue[j].action # "create"
    BY DEF Writes
  <1>2. ~ (j < k) /\ j \in Nat /\ k \in Nat
    BY <1>1, LinksNat DEF Alone
  <1> QED
    BY <1>2

LEMMA RaisedLinks ==
  ASSUME TypeOK, TypeOK', SyncInv, Later, NEW t \in Things, NEW c \in Columns,
         queue' = queue, Carried => Carried', t \in Made' => t \in Made,
         NEW e, IsChain(Links(t, c), Bases(c), Vals(c), e)
  PROVE  /\ StillLinks(t, c) \subseteq Links(t, c)
         /\ IsChain(StillLinks(t, c), Bases(c), Vals(c), e)
         /\ \A v : Fits(Links(t, c), Bases(c), Vals(c), e, v) => Fits(StillLinks(t, c), Bases(c), Vals(c), e, v)
         /\ Links(t, c)' = {k \in StillLinks(t, c) : Carried' => k # 1}
         /\ Bases(c)' = Bases(c) /\ Vals(c)' = Vals(c)
         /\ t \notin Made => StillLinks(t, c) = Links(t, c)
  <1> DEFINE L == Links(t, c)
             R == StillLinks(t, c)
  <1>1. PendingOf(t)' = PendingOf(t)
    BY PendingStays
  <1>2. t \in Made <=> t \in Made'
    BY DEF Later, Made
  <1>3. Writes(t, c)' = {k \in Writes(t, c) : Carried' => k # 1}
    BY <1>1, <1>2 DEF Writes
  <1>4. ASSUME NEW k \in DOMAIN queue, Merges(t, k) PROVE Merges(t, k)'
    <2>1. PICK i \in DOMAIN server : server[i].thing = t /\ queue[k].version < server[i].version
      BY <1>4 DEF Merges
    <2>2. i \in DOMAIN server' /\ server'[i].thing = t /\ (server'[i] = server[i] \/ server[i].version < server'[i].version)
      BY <2>1 DEF Later
    <2>3. server[i].version \in Nat /\ server'[i].version \in Nat /\ queue[k].version \in Nat
      BY <2>2, ServerItem, LaterItem, LinksNat DEF TypeOK, Mutations
    <2>4. queue[k].version < server'[i].version
      BY <2>1, <2>2, <2>3
    <2> QED
      BY <2>2, <2>4 DEF Merges
  <1>5. \A k \in DOMAIN queue : Alone(t, k)' <=> Alone(t, k)
    BY <1>1 DEF Alone
  <1>6. \A k \in DOMAIN queue : Bystander(t, k, c) => Bystander(t, k, c)'
    BY <1>4, <1>5 DEF Bystander
  <1>7. Links(t, c)' = {k \in R : Carried' => k # 1}
    <2>1. \A k \in Writes(t, c) : k \in DOMAIN queue
      BY LinksNat
    <2> QED
      BY <1>3, <1>6, <2>1 DEF Links, StillLinks
  <1>8. \A k \in L \ R : FirstOf(L, k) /\ Bases(c)[k] = Vals(c)[k] /\ t \in Made
    <2> TAKE k \in L \ R
    <2>1. k \in Writes(t, c) /\ Bystander(t, k, c)' /\ k \in DOMAIN queue
      BY LinksNat DEF StillLinks, Links
    <2>2. queue[k].action # "create" /\ c \notin queue[k].dirty /\ Alone(t, k)
      BY <1>5, <2>1 DEF Bystander
    <2>3. t \in Made
      BY <1>2, <2>1 DEF Bystander, Merges, Made
    <2>4. \A j \in L : k <= j
      BY <2>1, <2>2, <2>3, AloneIsFirst, LinksNat
    <2>5. queue[k].base[c] = queue[k].vals[c]
      BY <2>1, <2>2, IdleBase DEF Writes, SyncInv
    <2> QED
      BY <2>1, <2>3, <2>4, <2>5 DEF FirstOf, Bases, Vals
  <1>9. R \subseteq L
    BY DEF StillLinks
  <1>10. L \in SUBSET Nat
    BY LinksNat
  <1>11. /\ IsChain(R, Bases(c), Vals(c), e)
         /\ \A v : Fits(L, Bases(c), Vals(c), e, v) => Fits(R, Bases(c), Vals(c), e, v)
    <2> HIDE DEF L, R
    <2>1. PICK B, V : B = Bases(c) /\ V = Vals(c)
      OBVIOUS
    <2>2. PICK l, r : l = L /\ r = R
      OBVIOUS
    <2>3. l \in SUBSET Nat /\ r \in SUBSET l /\ IsChain(l, B, V, e) /\ \A k \in l \ r : FirstOf(l, k) /\ B[k] = V[k]
      BY <1>8, <1>9, <1>10, <2>1, <2>2 DEF L
    <2>4. IsChain(r, B, V, e) /\ \A v : Fits(l, B, V, e, v) => Fits(r, B, V, e, v)
      BY <2>3, DropIdle
    <2> QED
      BY <2>1, <2>2, <2>4
  <1>12. Bases(c)' = Bases(c) /\ Vals(c)' = Vals(c)
    BY DEF Bases, Vals
  <1>13. t \notin Made => R = L
    BY <1>8, <1>9
  <1> QED
    BY <1>7, <1>9, <1>11, <1>12, <1>13

(* A chain is kept by a step that leaves the queue, the promise, and the   *)
(* item but for its version or to a value of the chain.                    *)
LEMMA RaisedChain ==
  ASSUME TypeOK, TypeOK', SyncInv, Later, NEW t \in Things, NEW c \in Columns, ChainOf(t, c),
         queue' = queue, (Carried' <=> Carried) \/ ((Carried => Carried') /\ 1 \notin Links(t, c)),
         t \in Made' => t \in Made, mine'[t][c] = mine[t][c],
         \A i \in DOMAIN server' : server'[i].thing = t =>
            /\ i \in DOMAIN server /\ server[i].thing = t
            /\ Fits(Links(t, c), Bases(c), Vals(c), mine[t][c], server'[i].vals[c])
  PROVE  ChainOf(t, c)'
  <1>1. PICK e : e = mine[t][c] /\ e = mine'[t][c]
    OBVIOUS
  <1>2. IsChain(Links(t, c), Bases(c), Vals(c), e)
    BY <1>1 DEF ChainOf
  <1>3. /\ IsChain(StillLinks(t, c), Bases(c), Vals(c), e)
        /\ \A v : Fits(Links(t, c), Bases(c), Vals(c), e, v) => Fits(StillLinks(t, c), Bases(c), Vals(c), e, v)
        /\ Links(t, c)' = {k \in StillLinks(t, c) : Carried' => k # 1}
        /\ Bases(c)' = Bases(c) /\ Vals(c)' = Vals(c) /\ StillLinks(t, c) \subseteq Links(t, c)
        /\ t \notin Made => StillLinks(t, c) = Links(t, c)
    BY <1>2, RaisedLinks
  <1>4. Links(t, c)' = StillLinks(t, c)
    <2>1. \A k \in StillLinks(t, c) : Carried => k # 1
      BY DEF StillLinks, Links, Writes
    <2> QED
      BY <1>3, <2>1
  <1>5. IsChain(Links(t, c)', Bases(c)', Vals(c)', mine'[t][c])
    BY <1>1, <1>3, <1>4
  <1>6. \A i \in DOMAIN server' : server'[i].thing = t => Fits(Links(t, c)', Bases(c)', Vals(c)', mine'[t][c], server'[i].vals[c])
    BY <1>1, <1>3, <1>4
  <1>7. t \notin Made' => \E k \in Links(t, c)' : FirstOf(Links(t, c)', k) /\ queue'[k].action = "create"
    <2>1. Made \subseteq Made'
      BY DEF Later, Made
    <2>2. t \notin Made' => Links(t, c)' = Links(t, c)
      BY <1>3, <1>4, <2>1
    <2> QED
      BY <2>1, <2>2 DEF ChainOf
  <1> QED
    BY <1>5, <1>6, <1>7 DEF ChainOf

----------------------------------------
(* What the app knows of a field.                                          *)
LEMMA MadeIs ==
  ASSUME TypeOK, NEW i \in DOMAIN server
  PROVE  server[i].thing \in Made /\ server[i].thing \in Things /\ Thing(i) = server[i].thing /\ i \in Nat \ {0}
  <1>1. i \in Nat \ {0} /\ IsId(i)
    BY ServerItem DEF TypeOK, IsId
  <1>2. Thing(i) = server[i].thing
    BY <1>1 DEF Thing
  <1> QED
    BY <1>1, <1>2, ThingIsOne DEF Made, TypeOK

LEMMA KnownFits ==
  ASSUME TypeOK, MadeOnce, NEW i \in DOMAIN server, server[i].thing \notin doubled, NEW c \in Columns,
         ChainOf(server[i].thing, c), NEW v, Knows(i, c, v)
  PROVE  LET t == server[i].thing IN Fits(Links(t, c), Bases(c), Vals(c), mine[t][c], v)
  <1>1. PICK t : t = server[i].thing
    OBVIOUS
  <1>2. CASE v = server[i].vals[c]
    BY <1>1, <1>2 DEF ChainOf
  <1>3. CASE \E k \in Writes(t, c) : /\ queue[k].id = i /\ queue[k].vals[c] = v
                                     /\ c \in queue[k].dirty \/ queue[k].version = server[i].version
    <2>1. PICK k \in Writes(t, c) : /\ queue[k].id = i /\ queue[k].vals[c] = v
                                    /\ c \in queue[k].dirty \/ queue[k].version = server[i].version
      BY <1>3
    <2>2. queue[k].version = server[i].version => ~ Merges(t, k)
      <3> SUFFICES ASSUME queue[k].version = server[i].version, NEW j \in DOMAIN server, server[j].thing = t
                   PROVE  ~ (queue[k].version < server[j].version)
        BY DEF Merges
      <3>1. j = i
        BY <1>1, MadeIs DEF MadeOnce
      <3>2. server[i].version \in Nat
        BY ServerItem DEF TypeOK
      <3> QED
        BY <3>1, <3>2
    <2>3. k \in Links(t, c)
      BY <2>1, <2>2 DEF Links, Bystander
    <2>4. Vals(c)[k] = v
      BY <2>1, LinksNat
    <2> QED
      BY <1>1, <2>3, <2>4 DEF Fits
  <1> QED
    BY <1>1, <1>2, <1>3 DEF Knows

----------------------------------------
(* The chain, step by step.                                                *)
LEMMA QuietChain ==
  ASSUME TypeOK, TypeOK', SyncInv, Later, NEW t \in Things, NEW c \in Columns, ChainOf(t, c),
         queue' = queue, server' = server, mine'[t][c] = mine[t][c],
         (Carried' <=> Carried) \/ ((Carried => Carried') /\ 1 \notin Links(t, c))
  PROVE  ChainOf(t, c)'
  <1>1. Made' = Made
    BY DEF Made
  <1>2. \A i \in DOMAIN server' : server'[i].thing = t =>
            /\ i \in DOMAIN server /\ server[i].thing = t
            /\ Fits(Links(t, c), Bases(c), Vals(c), mine[t][c], server'[i].vals[c])
    BY DEF ChainOf
  <1> QED
    BY <1>1, <1>2, RaisedChain

LEMMA OtherMadeChain ==
  ASSUME TypeOK, TypeOK', SyncInv, Later, NEW t \in Things, NEW c \in Columns, ChainOf(t, c),
         NEW n, NEW u, u # t, NEW vals, Makes(n, u, vals),
         queue' = queue, Carried' <=> Carried, mine'[t][c] = mine[t][c]
  PROVE  ChainOf(t, c)'
  <1>1. server'[n].thing = u
    BY DEF Makes, Created
  <1>2. t \in Made' => t \in Made
    BY <1>1 DEF Made, Makes
  <1>3. \A i \in DOMAIN server' : server'[i].thing = t =>
            /\ i \in DOMAIN server /\ server[i].thing = t
            /\ Fits(Links(t, c), Bases(c), Vals(c), mine[t][c], server'[i].vals[c])
    BY <1>1 DEF ChainOf, Makes
  <1> QED
    BY <1>2, <1>3, RaisedChain

LEMMA AlteredChain ==
  ASSUME TypeOK, TypeOK', SyncInv, Later, NEW t \in Things, NEW c \in Columns, ChainOf(t, c),
         NEW i, NEW set, NEW vals, Alters(i, set, vals),
         server[i].thing = t /\ c \in set => Fits(Links(t, c), Bases(c), Vals(c), mine[t][c], vals[c]),
         queue' = queue, mine'[t][c] = mine[t][c],
         (Carried' <=> Carried) \/ ((Carried => Carried') /\ 1 \notin Links(t, c))
  PROVE  ChainOf(t, c)'
  <1>1. DOMAIN server' = DOMAIN server /\ \A j \in DOMAIN server : server'[j].thing = server[j].thing
    BY DEF Alters, ItemsKept
  <1>2. t \in Made' => t \in Made
    BY <1>1 DEF Made
  <1>3. \A j \in DOMAIN server' : server'[j].thing = t =>
            /\ j \in DOMAIN server /\ server[j].thing = t
            /\ Fits(Links(t, c), Bases(c), Vals(c), mine[t][c], server'[j].vals[c])
    BY <1>1 DEF ChainOf, Alters
  <1> QED
    BY <1>2, <1>3, RaisedChain

LEMMA NothingPending ==
  ASSUME TypeOK, SyncInv, CreationsInv, Creating, NEW t, t = - op.id, t \notin doubled, ~ Doomed(t)
  PROVE  PendingOf(t) = {} /\ t \notin Made
  <1>1. t \notin Pending /\ t \notin Made
    BY DEF CreationsInv
  <1>2. ASSUME NEW k \in PendingOf(t) PROVE FALSE
    <2>1. k \in DOMAIN queue /\ Thing(queue[k].id) = t /\ IsId(queue[k].id)
      BY LinksNat DEF PendingOf
    <2>2. ASSUME NEW j \in DOMAIN queue, queue[j].action = "create" PROVE Thing(queue[j].id) # t
      <3>1. queue[j].key = Thing(queue[j].id)
        BY DEF SyncInv, QueueInv, MutationOK
      <3> QED
        BY <1>2, <2>2, <1>1, <3>1 DEF Pending
    <2>3. queue[k].id < 0
      <3>1. queue[k].id \in DOMAIN server => t \in Made
        BY <2>1, MadeIs
      <3> QED
        BY <1>1, <2>1, <3>1, ThingIs DEF TypeOK
    <2>4. fl.at = "retarget" => k \notin fl.todo
      <3> SUFFICES ASSUME fl.at = "retarget", k \in fl.todo PROVE FALSE
        OBVIOUS
      <3>1. Thing(queue[k].id) = server[fl.got].thing /\ fl.got \in DOMAIN server
        BY DEF SyncInv, FlushInv, TypeOK, FlushOK
      <3> QED
        BY <1>1, <2>1, <3>1 DEF Made
    <2>5. Refused(k)
      BY <2>1, <2>2, <2>3, <2>4 DEF Refused
    <2> QED
      BY <2>5 DEF Doomed
  <1> QED
    BY <1>1, <1>2

LEMMA SendCreateChain ==
  ASSUME TypeOK, TypeOK', SyncInv, CreationsInv, Later, mine \in Histories, SendCreate,
         NEW t \in Things, NEW c \in Columns, Chains, Promised(t, c)',
         t \notin doubled /\ ~ Doomed(t), mine'[t][c] = mine[t][c] => Promised(t, c)
  PROVE  ChainOf(t, c)'
  <1>1. UNCHANGED <<queue, fl>> /\ op.at = "send" /\ op.action = "create"
    BY SendCreateDoes
  <1>2. Carried' <=> Carried
    BY <1>1 DEF Carried
  <1>3. mine'[t][c] = mine[t][c] => ChainOf(t, c)
    BY DEF Chains
  <1>4. CASE server' = server /\ mine' = mine
    BY <1>1, <1>2, <1>3, <1>4, QuietChain
  <1>5. CASE \E n : Makes(n, - op.id, op.row.vals)
    <2>1. PICK n, u, vals : u = - op.id /\ vals = op.row.vals /\ Makes(n, u, vals)
      BY <1>5
    <2>2. CASE t # u
      <3>1. mine'[t][c] = mine[t][c]
        BY <2>1, <2>2, CallPromises
      <3> QED
        BY <1>1, <1>2, <1>3, <2>1, <2>2, <3>1, OtherMadeChain
    <2>3. CASE t = u
      <3>1. PendingOf(t) = {} /\ t \notin Made
        BY <1>1, <2>1, <2>3, NothingPending DEF Creating
      <3>2. Links(t, c)' = {}
        <4>1. PendingOf(t)' = {}
          BY <1>1, <3>1, PendingStays
        <4> QED
          BY <4>1 DEF Links, Writes
      <3>3. ~ (doubled' = doubled \cup {u}) /\ mine'[t][c] # Null
        BY <2>3 DEF Promised
      <3>4. n \notin DOMAIN server
        BY <2>1 DEF Makes
      <3>5. Promise(u, Columns, Created(u, vals).vals)
        BY <2>1, <3>3, <3>4, SendCreateDoes DEF Makes
      <3>6. u \in 0..ops /\ vals \in AllVals
        <4>1. op.row \in Rows /\ u \in 1..ops
          BY <1>1, <2>1, SendCreateDoes DEF TypeOK, OpOK
        <4> QED
          BY <4>1, <2>1 DEF Rows
      <3>7. Created(u, vals) \in Items
        BY <3>6, CreatedIs
      <3>8. Created(u, vals).vals \in AllVals
        BY <3>7 DEF Items
      <3>9. mine'[t][c] = Created(u, vals).vals[c]
        BY <2>3, <3>3, <3>5, <3>8, PromiseIs
      <3>10. \A i \in DOMAIN server' : server'[i].thing = t => server'[i].vals[c] = mine'[t][c]
        <4>1. \A i \in DOMAIN server : server[i].thing # t
          BY <3>1 DEF Made
        <4> QED
          BY <2>1, <3>9, <2>3, <4>1 DEF Makes
      <3>11. t \in Made'
        <4>1. n \in DOMAIN server' /\ server'[n].thing = t
          BY <2>1, <2>3 DEF Makes, Created
        <4> QED
          BY <4>1 DEF Made
      <3> QED
        BY <3>2, <3>10, <3>11 DEF ChainOf, IsChain, Fits
    <2> QED
      BY <2>2, <2>3
  <1>6. (server' = server /\ mine' = mine) \/ \E n : Makes(n, - op.id, op.row.vals)
    BY SendCreateDoes
  <1> QED
    BY <1>4, <1>5, <1>6

LEMMA SendChangeChain ==
  ASSUME TypeOK, TypeOK', SyncInv, MadeOnce, Later, mine \in Histories, OpMine, OpRow, SendChange,
         NEW t \in Things, NEW c \in Columns, Chains, Promised(t, c)',
         t \notin doubled /\ <<t, c>> \notin touched /\ ~ Gone(t), mine'[t][c] = mine[t][c] => Promised(t, c)
  PROVE  ChainOf(t, c)'
  <1>1. /\ UNCHANGED <<queue, fl>> /\ op.at = "send" /\ op.action \in {"update", "status_update"}
        /\ IsId(op.id) /\ op.row \in Rows
    BY SendChangeDoes
  <1>2. (Carried' <=> Carried) /\ Calling
    BY <1>1 DEF Carried, Calling
  <1>3. mine'[t][c] = mine[t][c] => ChainOf(t, c)
    BY DEF Chains
  <1>4. mine'[t][c] # Null
    BY DEF Promised
  <1>5. CASE server' = server /\ mine' = mine
    BY <1>1, <1>2, <1>3, <1>5, QuietChain
  <1>6. CASE Alters(op.id, SetOf(op.action), op.row.vals) /\ op.row.version = server[op.id].version
    <2>1. PICK i, set, vals : i = op.id /\ set = SetOf(op.action) /\ vals = op.row.vals /\ Alters(i, set, vals)
      BY <1>6
    <2>2. i \in DOMAIN server /\ DOMAIN server' = DOMAIN server
      BY <2>1 DEF Alters, ItemsKept
    <2>3. server[i].thing = Thing(op.id)
      BY <2>1, <2>2, MadeIs
    <2>4. CASE t # server[i].thing
      <3>1. mine'[t][c] = mine[t][c]
        BY <2>3, <2>4, CallPromises
      <3> QED
        BY <1>1, <1>2, <1>3, <2>1, <2>4, <3>1, AlteredChain
    <2>5. CASE t = server[i].thing /\ c \notin op.dirty
      <3>1. mine'[t][c] = mine[t][c]
        BY <2>3, <2>5, CallPromises
      <3>2. ChainOf(t, c) /\ mine[t][c] # Null
        BY <1>3, <1>4, <3>1
      <3>3. ASSUME c \in set PROVE Fits(Links(t, c), Bases(c), Vals(c), mine[t][c], vals[c])
        <4>1. op.action = "update" /\ c \in Fields
          <5>1. op.action = "status_update" => op.dirty = {"status"}
            BY <1>1 DEF SyncInv, OpInv
          <5> QED
            BY <3>3, <1>1, <2>1, <2>5, <5>1 DEF SetOf
        <4>2. Fresh(op.id, op.row)
          BY <1>6, <2>1, <2>2 DEF Fresh
        <4>3. ~ Excused(i, c)
          BY <2>2, <2>5 DEF Excused, Gone
        <4>4. Knows(i, c, vals[c])
          BY <1>2, <2>1, <2>5, <3>2, <4>1, <4>2, <4>3 DEF OpRow
        <4> QED
          BY <2>2, <2>5, <3>2, <4>4, KnownFits
      <3> QED
        BY <1>1, <1>2, <2>1, <2>5, <3>1, <3>2, <3>3, AlteredChain
    <2>6. CASE t = server[i].thing /\ c \in op.dirty
      <3>1. mine[t][c] = Null
        BY <1>2, <2>3, <2>6 DEF OpMine
      <3>2. mine' # mine
        BY <1>4, <3>1
      <3>3. server' # server
        <4>1. server[i].version \in Nat
          BY <2>2, ServerItem DEF TypeOK
        <4> QED
          BY <2>1, <4>1 DEF Alters
      <3>4. Promise(Thing(op.id), op.dirty, server'[op.id].vals)
        BY <3>2, <3>3, SendChangeDoes
      <3>5. PICK columns, new : columns = op.dirty /\ new = server'[i].vals /\ Promise(t, columns, new)
        BY <2>1, <2>3, <2>6, <3>4
      <3>6. new \in AllVals
        <4>1. server' \in Seq(Items')
          BY DEF TypeOK, ServerOK, Items
        <4>2. server'[i] \in Items'
          BY <2>2, <4>1, Indices
        <4> QED
          BY <3>5, <4>2 DEF Items, AllVals
      <3>7. mine'[t][c] = new[c] /\ ~ Overtaken(t, c)
        BY <1>4, <2>6, <3>5, <3>6, PromiseIs
      <3>8. t \in Made /\ t \in Made'
        <4>1. server'[i].thing = t /\ i \in DOMAIN server'
          BY <2>1, <2>2, <2>6 DEF Alters, ItemsKept
        <4> QED
          BY <2>2, <2>6, <4>1 DEF Made
      <3>9. PendingOf(t)' = PendingOf(t)
        BY <1>1, PendingStays
      <3>10. Links(t, c)' = {}
        <4> SUFFICES ASSUME NEW k \in Links(t, c)' PROVE FALSE
          OBVIOUS
        <4>1. k \in Writes(t, c) /\ queue[k].action # "create" /\ k \in DOMAIN queue
          <5>1. k \in Writes(t, c)'
            BY DEF Links
          <5>2. k \in Writes(t, c) /\ queue[k].action # "create"
            BY <1>1, <1>2, <3>8, <3>9, <5>1 DEF Writes
          <5> QED
            BY <5>2, LinksNat
        <4>2. c \notin queue[k].dirty /\ Alone(t, k)
          BY <3>7, <4>1 DEF Overtaken, Alone
        <4>3. queue[k].version < server'[i].version
          <5>1. server[i].version \in Nat \ {0} /\ server'[i].version = server[i].version + 1
            BY <2>1, <2>2, ServerItem DEF Alters, TypeOK
          <5>2. NotAhead(queue[k].id, queue[k]) /\ Thing(queue[k].id) = t
            BY <4>1, LinksNat DEF SyncInv, QueueInv, MutationOK, Writes, PendingOf
          <5>3. ASSUME queue[k].id \in DOMAIN server PROVE queue[k].id = i
            <6>1. server[queue[k].id].thing = t
              BY <5>3, <5>2, MadeIs
            <6> QED
              BY <5>3, <2>2, <2>6, <6>1 DEF MadeOnce
          <5> QED
            BY <5>1, <5>2, <5>3 DEF NotAhead
        <4>4. Merges(t, k)'
          <5>1. i \in DOMAIN server' /\ server'[i].thing = t
            BY <2>1, <2>2, <2>6 DEF Alters, ItemsKept
          <5> QED
            BY <1>1, <4>3, <5>1 DEF Merges
        <4>5. Alone(t, k)'
          BY <1>1, <3>9, <4>2 DEF Alone
        <4>6. Bystander(t, k, c)'
          BY <1>1, <4>1, <4>2, <4>4, <4>5 DEF Bystander
        <4> QED
          BY <4>6 DEF Links
      <3>11. \A j \in DOMAIN server' : server'[j].thing = t => server'[j].vals[c] = mine'[t][c]
        <4>1. \A j \in DOMAIN server' : server'[j].thing = t => j = i
          BY <2>1, <2>2, <2>6 DEF Alters, ItemsKept, MadeOnce
        <4> QED
          BY <3>5, <3>7, <4>1
      <3> QED
        BY <3>8, <3>10, <3>11 DEF ChainOf, IsChain, Fits
    <2> QED
      BY <2>4, <2>5, <2>6
  <1>7. (server' = server /\ mine' = mine) \/ (Alters(op.id, SetOf(op.action), op.row.vals) /\ op.row.version = server[op.id].version)
    BY SendChangeDoes
  <1> QED
    BY <1>5, <1>6, <1>7

LEMMA OthersChain ==
  ASSUME TypeOK, TypeOK', SyncInv, Later, Others, NEW t \in Things, NEW c \in Columns, ChainOf(t, c), Promised(t, c)'
  PROVE  ChainOf(t, c)'
  <1>1. UNCHANGED <<queue, fl, mine>>
    BY OthersDo
  <1>2. PICK i \in DOMAIN server, d \in Columns, v \in HistoryVals :
          Alters(i, {d}, [e \in Columns |-> v]) /\ touched' = touched \cup {<<server[i].thing, d>>}
    BY OthersDo
  <1>3. ~ (server[i].thing = t /\ c = d)
    BY <1>2 DEF Promised
  <1>4. PICK set, vals : set = {d} /\ vals = [e \in Columns |-> v]
    OBVIOUS
  <1>5. ~ (server[i].thing = t /\ c \in set) /\ Alters(i, set, vals)
    BY <1>2, <1>3, <1>4
  <1>6. (Carried' <=> Carried) /\ mine'[t][c] = mine[t][c]
    BY <1>1 DEF Carried
  <1> QED
    BY <1>1, <1>5, <1>6, AlteredChain

(* The first of a chain is done, and takes the server to what it gives.    *)
LEMMA FlushCreateChain ==
  ASSUME TypeOK, TypeOK', SyncInv, CreationsInv, MadeOnce, Later, FlushCreate,
         NEW t \in Things, NEW c \in Columns, ChainOf(t, c), t \notin doubled
  PROVE  ChainOf(t, c)'
  <1>1. /\ UNCHANGED <<queue, mine>> /\ fl.at = "send" /\ 1 \in DOMAIN queue
        /\ queue[1].action = "create" /\ queue[1] \in Mutations
    BY FlushCreateDoes
  <1>2. ~ Carried /\ ~ Carried'
    <2>1. FlushOff => fl'.at \in {"off", "send"}
      BY DEF FlushOff, NoFlush
    <2>2. FlushOff \/ fl'.at = "retarget"
      <3>1. FlushOff \/ \E id, row, todo : fl' = [at |-> "retarget", from |-> queue[1].id, got |-> id,
                                                 row |-> row, todo |-> todo]
        BY FlushCreateDoes
      <3> QED
        BY <3>1
    <2> QED
      BY <1>1, <2>1, <2>2 DEF Carried
  <1>3. CASE server' = server
    BY <1>1, <1>2, <1>3, QuietChain
  <1>4. CASE server' # server
    <2>1. PICK n, u, vals : u = queue[1].key /\ vals = queue[1].vals /\ Makes(n, u, vals) /\ u \notin DOMAIN answers
      BY <1>4, FlushCreateDoes
    <2>2. CASE t # u
      BY <1>1, <1>2, <2>1, <2>2, OtherMadeChain
    <2>3. CASE t = u
      <3>1. t \notin Made
        <4>1. t \in Pending
          BY <1>1, <2>1, <2>3 DEF Pending
        <4> QED
          BY <2>1, <2>3, <4>1 DEF CreationsInv
      <3>2. PICK k \in Links(t, c) : FirstOf(Links(t, c), k) /\ queue[k].action = "create"
        BY <3>1 DEF ChainOf
      <3>3. k = 1 /\ 1 \in Writes(t, c)
        <4>1. k \in DOMAIN queue /\ Thing(queue[k].id) = t /\ k \in Writes(t, c)
          BY LinksNat DEF PendingOf
        <4>2. queue[k].key = t
          BY <4>1 DEF SyncInv, QueueInv, MutationOK
        <4> QED
          BY <1>1, <2>1, <2>3, <3>2, <4>1, <4>2 DEF SyncInv, QueueInv
      <3>4. PendingOf(t)' = PendingOf(t) /\ n \in DOMAIN server' /\ server'[n].thing = t /\ t \in Made'
        <4>1. n \in DOMAIN server' /\ server'[n].thing = t
          BY <2>1, <2>3 DEF Makes, Created
        <4> QED
          BY <1>1, <4>1, PendingStays DEF Made
      <3>5. ASSUME NEW j \in PendingOf(t), queue[j].action = "create" PROVE j = 1
        <4>1. j \in DOMAIN queue /\ Thing(queue[j].id) = t
          BY DEF PendingOf
        <4>2. queue[j].key = t
          BY <4>1 DEF SyncInv, QueueInv, MutationOK
        <4> QED
          BY <3>5, <1>1, <2>1, <2>3, <4>1, <4>2 DEF SyncInv, QueueInv
      <3>6. Writes(t, c)' = Writes(t, c) \ {1}
        BY <1>1, <1>2, <3>1, <3>4, <3>5 DEF Writes
      <3>7. ASSUME NEW j \in Writes(t, c) PROVE ~ Merges(t, j) /\ ~ Merges(t, j)'
        <4>1. ~ Merges(t, j)
          BY <3>1 DEF Merges, Made
        <4>2. queue[j].version \in Nat \ {0}
          BY LinksNat DEF Mutations
        <4>3. \A i \in DOMAIN server' : server'[i].thing = t => server'[i].version = 1
          BY <2>1, <3>1 DEF Makes, Created, Made
        <4> QED
          BY <1>1, <4>1, <4>2, <4>3 DEF Merges
      <3>8. Links(t, c)' = Links(t, c) \ {1}
        BY <1>1, <3>6, <3>7 DEF Links, Bystander
      <3>9. vals["status"] = "active" /\ vals \in AllVals
        BY <1>1, <2>1 DEF SyncInv, QueueInv, MutationOK, Mutations
      <3>10. server'[n].vals[c] = vals[c]
        <4>1. server'[n].vals = [vals EXCEPT !["status"] = "active"]
          BY <2>1 DEF Makes, Created
        <4>2. vals = [d \in Columns |-> vals[d]]
          BY <3>9 DEF AllVals
        <4> QED
          BY <3>9, <4>1, <4>2
      <3>11. /\ IsChain(Links(t, c) \ {1}, Bases(c), Vals(c), mine[t][c])
             /\ Fits(Links(t, c) \ {1}, Bases(c), Vals(c), mine[t][c], Vals(c)[1])
        <4>1. PICK L, B, V, e : L = Links(t, c) /\ B = Bases(c) /\ V = Vals(c) /\ e = mine[t][c]
          OBVIOUS
        <4>2. L \in SUBSET Nat /\ IsChain(L, B, V, e) /\ FirstOf(L, 1) /\ 1 \in L
          BY <3>2, <3>3, <4>1, LinksNat DEF ChainOf
        <4>3. IsChain(L \ {1}, B, V, e) /\ \A j \in L : Fits(L \ {1}, B, V, e, V[j])
          BY <4>2, DropFirst
        <4> QED
          BY <4>1, <4>2, <4>3
      <3>12. Vals(c)[1] = vals[c] /\ Bases(c)' = Bases(c) /\ Vals(c)' = Vals(c)
        BY <1>1, <2>1 DEF Vals, Bases
      <3>13. \A i \in DOMAIN server' : server'[i].thing = t => server'[i].vals[c] = vals[c]
        BY <2>1, <3>1, <3>10 DEF Makes, Made
      <3> QED
        BY <1>1, <3>4, <3>8, <3>11, <3>12, <3>13 DEF ChainOf
    <2> QED
      BY <2>2, <2>3
  <1> QED
    BY <1>3, <1>4

----------------------------------------
(* What the flush does to the mutations behind the head.                   *)
(* A chain does not depend on what its mutations are called, nor on their  *)
(* versions, but for those that may be bystanders.                         *)
LEMMA RelabelledChain ==
  ASSUME TypeOK, TypeOK', SyncInv, NEW t \in Things, NEW c \in Columns, ChainOf(t, c),
         server' = server, Carried' <=> Carried, mine'[t][c] = mine[t][c], DOMAIN queue' = DOMAIN queue,
         \A k \in DOMAIN queue :
           /\ queue'[k].action = queue[k].action /\ queue'[k].vals = queue[k].vals
           /\ queue'[k].base = queue[k].base /\ queue'[k].dirty = queue[k].dirty
           /\ Thing(queue'[k].id) = Thing(queue[k].id),
         \A k \in Writes(t, c) :
           queue[k].action # "create" /\ c \notin queue[k].dirty /\ Alone(t, k) => queue'[k].version = queue[k].version
  PROVE  ChainOf(t, c)'
  <1>1. \A k \in DOMAIN queue : Thing(queue[k].id)' = Thing(queue[k].id)
    BY DEF Thing
  <1>2. PendingOf(t)' = PendingOf(t)
    BY <1>1 DEF PendingOf
  <1>3. PendingOf(t) \subseteq DOMAIN queue /\ Writes(t, c) \subseteq DOMAIN queue /\ Links(t, c) \subseteq DOMAIN queue
    BY LinksNat
  <1>4. Made' = Made
    BY DEF Made
  <1>5. Writes(t, c)' = Writes(t, c)
    BY <1>2, <1>3, <1>4 DEF Writes
  <1>6. ASSUME NEW k \in Writes(t, c) PROVE Bystander(t, k, c)' <=> Bystander(t, k, c)
    <2>1. Alone(t, k)' <=> Alone(t, k)
      BY <1>2, <1>3 DEF Alone
    <2>2. queue'[k].version = queue[k].version => (Merges(t, k)' <=> Merges(t, k))
      BY DEF Merges
    <2> QED
      BY <1>3, <2>1, <2>2 DEF Bystander
  <1>7. Links(t, c)' = Links(t, c)
    BY <1>5, <1>6 DEF Links
  <1>8. Bases(c)' = Bases(c) /\ Vals(c)' = Vals(c)
    BY DEF Bases, Vals
  <1> QED
    BY <1>3, <1>4, <1>7, <1>8 DEF ChainOf

LEMMA RetargetChain ==
  ASSUME TypeOK, TypeOK', SyncInv, TodoInv, _retargetPendingMutations,
         NEW t \in Things, NEW c \in Columns, ChainOf(t, c), <<t, c>> \notin touched
  PROVE  ChainOf(t, c)'
  <1>1. PICK k \in fl.todo :
              /\ k \in DOMAIN queue
              /\ \A j \in DOMAIN queue : j # k => queue'[j] = queue[j]
              /\ Readdressed(queue[k], queue'[k], fl.got,
                             IF queue[k].action = "create" THEN queue[k].version ELSE fl.row.version)
              /\ fl'.at \in {"retarget", "drop"}
    BY RetargetDoes
  <1>2. fl.at = "retarget" /\ UNCHANGED <<server, history>> /\ DOMAIN queue' = DOMAIN queue
    BY RetargetDoes
  <1>3. fl.got \in DOMAIN server /\ queue[k].id = fl.from /\ Thing(fl.from) = server[fl.got].thing /\ fl.row.version = 1
    BY <1>2 DEF TypeOK, FlushOK, SyncInv, FlushInv
  <1>4. \A j \in DOMAIN queue :
           /\ queue'[j].action = queue[j].action /\ queue'[j].vals = queue[j].vals
           /\ queue'[j].base = queue[j].base /\ queue'[j].dirty = queue[j].dirty
           /\ Thing(queue'[j].id) = Thing(queue[j].id)
    <2>1. Thing(fl.got) = server[fl.got].thing
      BY <1>3, MadeIs
    <2> QED
      BY <1>1, <1>3, <2>1 DEF Readdressed
  <1>5. ASSUME NEW j \in Writes(t, c), queue[j].action # "create", c \notin queue[j].dirty
        PROVE  queue'[j].version = queue[j].version
    <2>1. j \in DOMAIN queue /\ c \in SetBy(queue[j].action) /\ Thing(queue[j].id) = t
      BY LinksNat DEF Writes, PendingOf
    <2>2. c \in Fields /\ queue[j].action = "update"
      BY <1>5, <2>1, IdleBase DEF SyncInv
    <2>3. CASE j = k /\ queue[j].version # 1
      <3>1. c \in SetBack(j)
        BY <1>5, <2>2, <2>3 DEF SetBack
      <3>2. <<server[fl.got].thing, c>> \in touched
        BY <1>1, <1>2, <2>3, <3>1 DEF TodoInv
      <3> QED
        BY <1>3, <2>1, <2>3, <3>2
    <2>4. CASE j = k /\ queue[j].version = 1
      BY <1>1, <1>3, <2>2, <2>4 DEF Readdressed
    <2>5. CASE j # k
      BY <1>1, <2>1, <2>5
    <2> QED
      BY <2>3, <2>4, <2>5
  <1>6. (Carried' <=> Carried) /\ mine'[t][c] = mine[t][c] /\ server' = server
    BY <1>1, <1>2 DEF Carried, history
  <1> QED
    BY <1>2, <1>4, <1>5, <1>6, RelabelledChain

LEMMA RebaseChain ==
  ASSUME TypeOK, TypeOK', SyncInv, _rebasePendingMutations, NEW t \in Things, NEW c \in Columns, ChainOf(t, c)
  PROVE  ChainOf(t, c)'
  <1>1. PICK k \in fl.todo :
              /\ k \in DOMAIN queue
              /\ \A j \in DOMAIN queue : j # k => queue'[j] = queue[j]
              /\ Readdressed(queue[k], queue'[k], queue[k].id, fl.row.version)
              /\ fl'.at \in {"rebase", "put"}
    BY RebaseDoes
  <1>2. fl.at = "rebase" /\ UNCHANGED <<server, history>> /\ DOMAIN queue' = DOMAIN queue
    BY RebaseDoes
  <1>3. \A j \in DOMAIN queue :
           /\ queue'[j].action = queue[j].action /\ queue'[j].vals = queue[j].vals
           /\ queue'[j].base = queue[j].base /\ queue'[j].dirty = queue[j].dirty
           /\ Thing(queue'[j].id) = Thing(queue[j].id)
    BY <1>1 DEF Readdressed
  <1>4. Carried /\ Carried'
    BY <1>1, <1>2 DEF Carried
  <1>5. queue[1].action # "create" /\ queue[1].id = queue[k].id /\ 1 \in DOMAIN queue
    <2>1. queue # <<>> /\ queue \in Seq(Mutations)
      BY <1>2 DEF TypeOK, FlushOK, IsQueue
    <2>2. 1 \in DOMAIN queue
      BY <2>1
    <2> QED
      BY <1>1, <1>2, <2>2 DEF SyncInv, FlushInv
  <1>6. ASSUME NEW j \in Writes(t, c), Alone(t, j) PROVE queue'[j].version = queue[j].version
    <2>1. j \in DOMAIN queue /\ Thing(queue[j].id) = t /\ j # 1 /\ j \in Nat \ {0}
      BY <1>4, LinksNat DEF Writes, PendingOf
    <2>2. j # k
      <3> SUFFICES ASSUME j = k PROVE FALSE
        OBVIOUS
      <3>1. 1 \in PendingOf(t)
        BY <1>5, <2>1 DEF PendingOf
      <3> QED
        BY <1>6, <1>5, <2>1, <3>1 DEF Alone
    <2> QED
      BY <1>1, <2>1, <2>2
  <1>7. (Carried' <=> Carried) /\ mine'[t][c] = mine[t][c] /\ server' = server
    BY <1>2, <1>4 DEF history
  <1> QED
    BY <1>2, <1>3, <1>6, <1>7, RelabelledChain

LEMMA DropLocalChain ==
  ASSUME TypeOK, TypeOK', SyncInv, Later, DropLocal, NEW t \in Things, NEW c \in Columns, ChainOf(t, c)
  PROVE  ChainOf(t, c)'
  <1>1. fl.at = "drop" /\ UNCHANGED <<server, queue, mine>>
    BY DEF DropLocal, history
  <1>2. queue[1].action = "create" /\ queue[1].id = fl.got /\ fl.got \in DOMAIN server
    BY <1>1 DEF SyncInv, FlushInv, TypeOK, FlushOK
  <1>3. 1 \notin Links(t, c)
    <2> SUFFICES ASSUME 1 \in Links(t, c) PROVE FALSE
      OBVIOUS
    <2>1. 1 \in Writes(t, c) /\ Thing(queue[1].id) = t
      BY LinksNat DEF PendingOf
    <2>2. t \in Made
      BY <1>2, <2>1, MadeIs
    <2> QED
      BY <1>2, <2>1, <2>2 DEF Writes
  <1>4. Carried => Carried'
    BY <1>1 DEF Carried
  <1> QED
    BY <1>1, <1>3, <1>4, QuietChain

----------------------------------------
(* The head of the queue is sent.                                          *)
LEMMA SentValue ==
  ASSUME TypeOK, TypeOK', SyncInv, MadeOnce, _applyWithConflictResolution, NEW i, i = queue[1].id,
         NEW again \in BOOLEAN, again = (fl.at = "resend"),
         NEW vals, vals = IF again THEN resolve(fl.row.vals, queue[1].vals, queue[1].base, queue[1].dirty)
                          ELSE queue[1].vals,
         Alters(i, SetOf(queue[1].action), vals),
         server[i].version = IF again THEN fl.row.version ELSE queue[1].version,
         NEW t \in Things, t = server[i].thing, t \notin doubled, NEW c \in Columns, ChainOf(t, c)
  PROVE  /\ Fits(Links(t, c), Bases(c), Vals(c), mine[t][c], server'[i].vals[c])
         /\ 1 \in Links(t, c) => \/ server'[i].vals[c] = queue[1].vals[c]
                                 \/ server'[i].vals[c] = server[i].vals[c] /\ server'[i].vals[c] # queue[1].base[c]
  <1> DEFINE m == queue[1]
             set == SetOf(m.action)
             new == server'[i].vals[c]
             old == server[i].vals[c]
  <1>1. /\ fl.at \in {"send", "resend"} /\ 1 \in DOMAIN queue /\ m.action \in {"update", "status_update"}
        /\ m \in Mutations /\ ~ Carried
    BY ApplyDoes DEF Carried
  <1>2. i \in DOMAIN server /\ new = IF c \in set THEN vals[c] ELSE old
    BY DEF Alters
  <1>3. 1 \in PendingOf(t)
    BY <1>1, <1>2, MadeIs DEF PendingOf
  <1>4. 1 \in Writes(t, c) <=> c \in set
    BY <1>1, <1>3 DEF Writes, SetBy, SetOf
  <1>5. Alone(t, 1)
    <2>1. \A j \in PendingOf(t) : j \in Nat \ {0}
      BY LinksNat
    <2> QED
      BY <2>1 DEF Alone
  <1>6. Merges(t, 1) <=> m.version < server[i].version
    <2>1. \A j \in DOMAIN server : server[j].thing = t => j = i
      BY <1>2 DEF MadeOnce
    <2> QED
      BY <1>2, <2>1 DEF Merges
  <1>7. server[i].version \in Nat \ {0} /\ m.version \in Nat
    BY <1>1, <1>2, ServerItem DEF TypeOK, Mutations
  <1>8. Fits(Links(t, c), Bases(c), Vals(c), mine[t][c], old)
    BY <1>2 DEF ChainOf
  <1>9. 1 \in Links(t, c) => Fits(Links(t, c), Bases(c), Vals(c), mine[t][c], m.vals[c])
    BY <1>1, LinksNat DEF Fits
  <1>10. CASE ~ again
    <2>1. ~ Merges(t, 1)
      BY <1>6, <1>7, <1>10
    <2>2. 1 \in Links(t, c) <=> c \in set
      BY <1>4, <2>1 DEF Links, Bystander
    <2>3. c \in set => new = m.vals[c]
      BY <1>2, <1>10
    <2> HIDE DEF set, new, old, m
    <2> QED
      BY <1>2, <1>8, <1>9, <2>2, <2>3 DEF new, old, m
  <1>11. CASE again
    <2>1. fl.at = "resend"
      BY <1>11
    <2>2. Honest(i, fl.row) /\ m.version < server[i].version
      BY <2>1 DEF SyncInv, FlushInv
    <2>3. fl.row.vals = server[i].vals
      BY <1>2, <1>11, <2>2 DEF Honest, Fresh
    <2>4. 1 \in Links(t, c) <=> c \in set /\ c \in m.dirty
      BY <1>1, <1>4, <1>5, <1>6, <2>2 DEF Links, Bystander
    <2>5. vals[c] = IF c \in m.dirty /\ old = m.base[c] THEN m.vals[c] ELSE old
      BY <1>11, <2>3 DEF resolve
    <2> HIDE DEF set, new, old, m
    <2> QED
      BY <1>2, <1>8, <1>9, <2>4, <2>5 DEF new, old, m
  <1> QED
    BY <1>10, <1>11

(* The head is taken out of its chain when the answer is written back.     *)
LEMMA SentChain ==
  ASSUME TypeOK, TypeOK', SyncInv, Later, NEW t \in Things, NEW c \in Columns, ChainOf(t, c), t \in Made, t \in Made',
         queue' = queue, ~ Carried, Carried', mine'[t][c] = mine[t][c], 1 \in DOMAIN queue,
         NEW i \in DOMAIN server', \A j \in DOMAIN server' : server'[j].thing = t => j = i,
         Fits(Links(t, c), Bases(c), Vals(c), mine[t][c], server'[i].vals[c]),
         1 \in Links(t, c) => \/ server'[i].vals[c] = queue[1].vals[c]
                              \/ server'[i].vals[c] # queue[1].base[c]
  PROVE  ChainOf(t, c)'
  <1>1. PICK B, V, e, v : B = Bases(c) /\ V = Vals(c) /\ e = mine[t][c] /\ v = server'[i].vals[c]
    OBVIOUS
  <1>2. PICK L, R : L = Links(t, c) /\ R = StillLinks(t, c)
    OBVIOUS
  <1>3. IsChain(L, B, V, e) /\ L \in SUBSET Nat
    BY <1>1, <1>2, LinksNat DEF ChainOf
  <1>4. /\ R \subseteq L /\ IsChain(R, B, V, e) /\ Fits(R, B, V, e, v)
        /\ Links(t, c)' = {k \in R : k # 1} /\ Bases(c)' = B /\ Vals(c)' = V
    BY <1>1, <1>2, <1>3, RaisedLinks
  <1>5. B[1] = queue[1].base[c] /\ V[1] = queue[1].vals[c]
    BY <1>1, LinksNat
  <1>6. IsChain(R \ {1}, B, V, e) /\ Fits(R \ {1}, B, V, e, v)
    <2>1. CASE 1 \notin R
      <3>1. R \ {1} = R
        BY <2>1
      <3> QED
        BY <1>4, <3>1
    <2>2. CASE 1 \in R
      <3>1. FirstOf(R, 1)
        <4>1. \A k \in R : k \in Nat \ {0}
          BY <1>2, <1>4, LinksNat
        <4> QED
          BY <2>2, <4>1 DEF FirstOf
      <3>2. IsChain(R \ {1}, B, V, e) /\ \A k \in R : Fits(R \ {1}, B, V, e, V[k])
        BY <1>3, <1>4, <3>1, DropFirst
      <3>3. v = V[1] \/ v # B[1]
        BY <1>1, <1>2, <1>4, <1>5, <2>2
      <3>4. \E k \in R : v = V[k]
        <4>1. ASSUME NEW k \in R, FirstOf(R, k) PROVE k = 1
          <5>1. k <= 1 /\ 1 <= k /\ k \in Nat
            BY <4>1, <1>3, <1>4, <2>2, <3>1 DEF FirstOf
          <5> QED
            BY <5>1
        <4> QED
          BY <1>4, <2>2, <3>3, <4>1 DEF Fits
      <3> QED
        BY <3>2, <3>4
    <2> QED
      BY <2>1, <2>2
  <1>7. Links(t, c)' = R \ {1}
    BY <1>4
  <1> QED
    BY <1>1, <1>4, <1>6, <1>7 DEF ChainOf

LEMMA ApplyChain ==
  ASSUME TypeOK, TypeOK', SyncInv, MadeOnce, Later, _applyWithConflictResolution,
         NEW t \in Things, NEW c \in Columns, ChainOf(t, c), t \notin doubled, ~ Doomed(t), ~ Gone(t)
  PROVE  ChainOf(t, c)'
  <1> DEFINE m == queue[1]
             new == IF fl.at = "resend" THEN resolve(fl.row.vals, m.vals, m.base, m.dirty) ELSE m.vals
  <1>1. /\ fl.at \in {"send", "resend"} /\ 1 \in DOMAIN queue /\ m.action \in {"update", "status_update"}
        /\ UNCHANGED <<queue, mine>> /\ ~ Carried /\ IsId(m.id)
    BY ApplyDoes DEF Carried, history
  <1>2. FlushOff \/ NextFlush("fetch") => ~ Carried'
    <2>1. FlushOff => fl'.at \in {"off", "send"}
      BY DEF FlushOff, NoFlush
    <2>2. NextFlush("fetch") => fl'.at = "fetch"
      BY DEF NextFlush, TypeOK, FlushOK
    <2> QED
      BY <2>1, <2>2 DEF Carried
  <1>3. CASE server' = server /\ (FlushOff \/ NextFlush("fetch"))
    BY <1>1, <1>2, <1>3, QuietChain
  <1>4. CASE server' = server /\ (m.id < 0 \/ (m.id \in DOMAIN server /\ server[m.id].vals["status"] = "gone"))
    <2>1. Thing(m.id) # t
      <3>1. CASE m.id < 0
        <4>1. Refused(1)
          <5>1. \A j \in DOMAIN queue : ~ (j < 1)
            BY LinksNat
          <5> QED
            BY <1>1, <3>1, <5>1 DEF Refused
        <4> QED
          BY <1>1, <4>1 DEF Doomed, PendingOf
      <3>2. CASE m.id \in DOMAIN server /\ server[m.id].vals["status"] = "gone"
        BY <3>2, MadeIs DEF Gone
      <3> QED
        BY <1>4, <3>1, <3>2
    <2>2. 1 \notin Links(t, c)
      BY <2>1, LinksNat DEF PendingOf
    <2> QED
      BY <1>1, <1>4, <2>2, QuietChain
  <1>5. CASE Alters(m.id, SetOf(m.action), new)
             /\ server[m.id].version = IF fl.at = "resend" THEN fl.row.version ELSE m.version
    <2>1. PICK i, set, vals : i = m.id /\ set = SetOf(m.action) /\ vals = new /\ Alters(i, set, vals)
      BY <1>5
    <2>2. i \in DOMAIN server /\ DOMAIN server' = DOMAIN server /\ server'[i].thing = server[i].thing
          /\ \A j \in DOMAIN server : server'[j].thing = server[j].thing
      BY <2>1 DEF Alters, ItemsKept
    <2>3. Thing(m.id) = server[i].thing
      BY <2>1, <2>2, MadeIs
    <2>4. CASE t # server[i].thing
      <3>1. 1 \notin Links(t, c)
        BY <2>3, <2>4, LinksNat DEF PendingOf
      <3> QED
        BY <1>1, <2>1, <2>4, <3>1, AlteredChain
    <2>5. CASE t = server[i].thing
      <3>1. PICK again \in BOOLEAN : again = (fl.at = "resend")
        BY Zenon
      <3>2. /\ vals = IF again THEN resolve(fl.row.vals, queue[1].vals, queue[1].base, queue[1].dirty) ELSE queue[1].vals
            /\ server[i].version = IF again THEN fl.row.version ELSE queue[1].version
        BY <1>5, <2>1, <3>1
      <3>3. /\ Fits(Links(t, c), Bases(c), Vals(c), mine[t][c], server'[i].vals[c])
            /\ 1 \in Links(t, c) => \/ server'[i].vals[c] = queue[1].vals[c]
                                    \/ server'[i].vals[c] = server[i].vals[c] /\ server'[i].vals[c] # queue[1].base[c]
        BY <2>1, <2>5, <3>1, <3>2, SentValue
      <3>4. CASE ~ Carried'
        <4>1. server[i].thing = t /\ c \in set => Fits(Links(t, c), Bases(c), Vals(c), mine[t][c], vals[c])
          BY <2>1, <3>3 DEF Alters
        <4> QED
          BY <1>1, <2>1, <3>4, <4>1, AlteredChain
      <3>5. CASE Carried'
        <4>1. \A j \in DOMAIN server' : server'[j].thing = t => j = i
          BY <2>2, <2>5 DEF MadeOnce
        <4>2. t \in Made /\ t \in Made'
          BY <2>2, <2>5 DEF Made
        <4> QED
          BY <1>1, <2>2, <3>3, <3>5, <4>1, <4>2, SentChain
      <3> QED
        BY <3>4, <3>5
    <2> QED
      BY <2>4, <2>5
  <1>6. \/ Alters(m.id, SetOf(m.action), new)
           /\ server[m.id].version = IF fl.at = "resend" THEN fl.row.version ELSE m.version
        \/ server' = server /\ (FlushOff \/ NextFlush("fetch"))
        \/ server' = server /\ (m.id < 0 \/ (m.id \in DOMAIN server /\ server[m.id].vals["status"] = "gone"))
    BY ApplyDoes
  <1> QED
    BY <1>3, <1>4, <1>5, <1>6

----------------------------------------
(* The head is removed: what is behind it may be a bystander now.          *)
LEMMA DeleteChain ==
  ASSUME TypeOK, TypeOK', SyncInv, _deleteMutation, NEW t \in Things, NEW c \in Columns, ChainOf(t, c),
         mine'[t][c] = mine[t][c]
  PROVE  ChainOf(t, c)'
  <1>1. /\ UNCHANGED server /\ Carried /\ ~ Carried'
        /\ \A k \in DOMAIN queue' : k \in Nat \ {0} /\ k + 1 \in DOMAIN queue /\ queue'[k] = queue[k + 1]
        /\ \A k \in DOMAIN queue : k # 1 => k - 1 \in DOMAIN queue' /\ queue'[k - 1] = queue[k]
    BY DeleteDoes DEF Carried, NoFlush
  <1>2. DOMAIN queue \subseteq Nat \ {0} /\ Links(t, c) \subseteq Writes(t, c) /\ Writes(t, c) \subseteq PendingOf(t)
        /\ PendingOf(t) \subseteq DOMAIN queue
    BY LinksNat
  <1>3. Made' = Made
    BY <1>1 DEF Made
  <1>4. ASSUME NEW k \in DOMAIN queue' PROVE k \in PendingOf(t)' <=> k + 1 \in PendingOf(t)
    <2>1. Thing(queue[k].id)' = Thing(queue[k + 1].id)
      BY <1>1 DEF Thing
    <2> QED
      BY <1>1, <2>1 DEF PendingOf
  <1>5. ASSUME NEW k \in DOMAIN queue' PROVE k \in Writes(t, c)' <=> k + 1 \in Writes(t, c)
    <2>1. queue'[k].action = queue[k + 1].action /\ k + 1 # 1
      BY <1>1
    <2> QED
      BY <1>1, <1>3, <1>4, <2>1 DEF Writes
  <1> DEFINE Next2(k) == \A j \in PendingOf(t) : 1 < j /\ j < k => queue[j].action = "create"
             Idle(k) == queue[k].action # "create" /\ c \notin queue[k].dirty /\ Next2(k) /\ Merges(t, k)
  <1>6. ASSUME NEW k \in DOMAIN queue' PROVE Alone(t, k)' <=> Next2(k + 1)
    <2>1. ASSUME Alone(t, k)' PROVE Next2(k + 1)
      <3> SUFFICES ASSUME NEW j \in PendingOf(t), 1 < j, j < k + 1 PROVE queue[j].action = "create"
        OBVIOUS
      <3>1. j \in DOMAIN queue /\ j \in Nat /\ j - 1 \in DOMAIN queue' /\ queue'[j - 1] = queue[j] /\ (j - 1) + 1 = j
        BY <1>1, <1>2
      <3>2. j - 1 \in PendingOf(t)' /\ j - 1 < k
        BY <1>1, <1>4, <3>1
      <3> QED
        BY <2>1, <3>1, <3>2 DEF Alone
    <2>2. ASSUME Next2(k + 1) PROVE Alone(t, k)'
      <3> SUFFICES ASSUME NEW j \in PendingOf(t)', j < k PROVE queue'[j].action = "create"
        BY DEF Alone
      <3>1. j \in DOMAIN queue' /\ j \in Nat \ {0} /\ queue'[j] = queue[j + 1] /\ k \in Nat
        BY <1>1 DEF PendingOf
      <3>2. j + 1 \in PendingOf(t) /\ 1 < j + 1 /\ j + 1 < k + 1
        BY <1>4, <3>1
      <3> QED
        BY <2>2, <3>1, <3>2
    <2> QED
      BY <2>1, <2>2
  <1>7. \A k \in DOMAIN queue' : Merges(t, k)' <=> Merges(t, k + 1)
    BY <1>1 DEF Merges
  <1>8. ASSUME NEW k \in DOMAIN queue' PROVE Bystander(t, k, c)' <=> Idle(k + 1)
    <2>1. queue'[k] = queue[k + 1] /\ (Alone(t, k)' <=> Next2(k + 1)) /\ (Merges(t, k)' <=> Merges(t, k + 1))
      BY <1>1, <1>6, <1>7
    <2> HIDE DEF Next2
    <2> QED
      BY <2>1 DEF Bystander
  <1>9. \A k \in DOMAIN queue : Bystander(t, k, c) => Idle(k)
    BY DEF Bystander, Alone
  <1>10. PICK L, R, S : L = Links(t, c) /\ R = {k \in L : ~ Idle(k)} /\ S = Links(t, c)'
    OBVIOUS
  <1>11. PICK B, V, C, W, e : /\ B = Bases(c) /\ V = Vals(c) /\ C = Bases(c)' /\ W = Vals(c)' /\ e = mine[t][c]
    OBVIOUS
  <1>12. IsChain(L, B, V, e) /\ L \in SUBSET Nat /\ R \subseteq L
    BY <1>2, <1>10, <1>11 DEF ChainOf
  <1>13. ASSUME NEW k \in L \ R PROVE FirstOf(L, k) /\ B[k] = V[k] /\ t \in Made
    <2>1. k \in Writes(t, c) /\ k \in DOMAIN queue /\ Idle(k)
      BY <1>2, <1>10
    <2>2. t \in Made
      BY <2>1 DEF Merges, Made
    <2>3. ASSUME NEW j \in L PROVE k <= j
      <3>1. j \in Writes(t, c) /\ j \in PendingOf(t) /\ j \in Nat \ {0} /\ k \in Nat
        BY <1>2, <1>10, <2>1
      <3>2. queue[j].action # "create" /\ j # 1
        BY <1>1, <2>2, <3>1 DEF Writes
      <3> QED
        BY <2>1, <3>1, <3>2
    <2>4. queue[k].base[c] = queue[k].vals[c]
      BY <2>1, IdleBase DEF Writes, SyncInv
    <2>5. B[k] = V[k]
      BY <1>11, <2>1, <2>4, LinksNat
    <2> QED
      BY <2>2, <2>3, <2>5 DEF FirstOf
  <1>14. IsChain(R, B, V, e) /\ \A v : Fits(L, B, V, e, v) => Fits(R, B, V, e, v)
    BY <1>12, <1>13, DropIdle
  <1>15. ASSUME NEW k \in S PROVE k \in DOMAIN queue' /\ k + 1 \in R
    <2>1. k \in Writes(t, c)' /\ ~ Bystander(t, k, c)'
      BY <1>10 DEF Links
    <2>2. k \in DOMAIN queue'
      BY <2>1 DEF Writes, PendingOf
    <2>3. k + 1 \in Writes(t, c) /\ ~ Idle(k + 1) /\ k + 1 \in DOMAIN queue
      BY <1>1, <1>5, <1>8, <2>1, <2>2
    <2>4. ~ Bystander(t, k + 1, c)
      BY <1>9, <2>3
    <2> HIDE DEF Idle
    <2> QED
      BY <1>10, <2>2, <2>3, <2>4 DEF Links
  <1>16. ASSUME NEW k \in R PROVE k - 1 \in S /\ k - 1 \in DOMAIN queue' /\ queue'[k - 1] = queue[k]
    <2>1. k \in Writes(t, c) /\ k \in DOMAIN queue /\ k \in Nat \ {0} /\ ~ Idle(k)
      BY <1>2, <1>10
    <2>2. k # 1
      BY <1>1, <2>1 DEF Writes
    <2>3. k - 1 \in DOMAIN queue' /\ (k - 1) + 1 = k /\ queue'[k - 1] = queue[k]
      BY <1>1, <2>1, <2>2
    <2>4. k - 1 \in Writes(t, c)' /\ ~ Bystander(t, k - 1, c)'
      BY <1>5, <1>8, <2>1, <2>3
    <2> QED
      BY <1>10, <2>3, <2>4 DEF Links
  <1>17. ASSUME NEW k \in S PROVE k \in Nat /\ C[k] = B[k + 1] /\ W[k] = V[k + 1]
    <2>1. k \in DOMAIN queue' /\ k + 1 \in DOMAIN queue /\ queue'[k] = queue[k + 1] /\ k \in Nat
      BY <1>1, <1>15
    <2> QED
      BY <1>11, <2>1 DEF Bases, Vals
  <1>18. IsChain(S, C, W, e) /\ \A v : Fits(R, B, V, e, v) => Fits(S, C, W, e, v)
    <2>1. R \in SUBSET Nat /\ S \in SUBSET Nat
      BY <1>12, <1>17
    <2> QED
      BY <1>14, <1>15, <1>16, <1>17, <2>1, MoveChain
  <1>19. t \notin Made' => \E k \in S : FirstOf(S, k) /\ queue'[k].action = "create"
    <2> SUFFICES ASSUME t \notin Made PROVE \E k \in S : FirstOf(S, k) /\ queue'[k].action = "create"
      BY <1>3
    <2>1. PICK k \in L : FirstOf(L, k) /\ queue[k].action = "create"
      BY <1>10 DEF ChainOf
    <2>2. R = L
      BY <1>12, <1>13
    <2>3. k - 1 \in S /\ queue'[k - 1].action = "create"
      BY <1>16, <2>1, <2>2
    <2>4. ASSUME NEW j \in S PROVE k - 1 <= j
      <3>1. j + 1 \in L /\ j \in Nat /\ k \in Nat
        BY <1>12, <1>15, <1>17, <2>2
      <3>2. k <= j + 1
        BY <2>1, <3>1 DEF FirstOf
      <3> QED
        BY <3>1, <3>2
    <2> QED
      BY <2>3, <2>4 DEF FirstOf
  <1>20. \A i \in DOMAIN server' : server'[i].thing = t => Fits(S, C, W, e, server'[i].vals[c])
    <2>1. \A i \in DOMAIN server : server[i].thing = t => Fits(L, B, V, e, server[i].vals[c])
      BY <1>10, <1>11 DEF ChainOf
    <2> QED
      BY <1>1, <1>14, <1>18, <2>1
  <1> QED
    BY <1>10, <1>11, <1>18, <1>19, <1>20 DEF ChainOf

----------------------------------------
(* A call is queued.                                                       *)
LEMMA EnqueueLinks ==
  ASSUME TypeOK, TypeOK', _enqueue, NEW t \in Things, NEW c \in Columns, NEW n, n = Len(queue) + 1
  PROVE  /\ n \in DOMAIN queue' /\ n \in Nat \ {0} /\ \A k \in DOMAIN queue : k \in Nat \ {0} /\ k < n
         /\ UNCHANGED <<server, fl>> /\ Made' = Made /\ (Carried' <=> Carried)
         /\ PendingOf(t)' = PendingOf(t) \cup {k \in {n} : t = Thing(op.id)}
         /\ Writes(t, c)' = Writes(t, c) \cup {k \in {n} : /\ t = Thing(op.id) /\ c \in SetBy(op.action)
                                                           /\ op.action = "create" => t \notin Made}
         /\ \A k \in DOMAIN queue : /\ Bystander(t, k, c)' <=> Bystander(t, k, c)
                                    /\ queue'[k] = queue[k] /\ k \in DOMAIN queue'
                                    /\ Bases(c)'[k] = Bases(c)[k] /\ Vals(c)'[k] = Vals(c)[k]
         /\ Bases(c)'[n] = op.base.vals[c] /\ Vals(c)'[n] = op.row.vals[c]
         /\ Bystander(t, n, c)' => t \in Made /\ op.action # "create" /\ c \notin op.dirty
         /\ PendingOf(t) = {} /\ op.action # "create" /\ c \notin op.dirty /\ ~ Bystander(t, n, c)' /\ t = Thing(op.id) =>
              \A i \in DOMAIN server : server[i].thing = t => ~ (op.row.version < server[i].version)
  <1>1. /\ UNCHANGED <<server, fl>> /\ op.action \in Actions
        /\ DOMAIN queue' = DOMAIN queue \cup {n} /\ n \notin DOMAIN queue
        /\ Len(queue) \in Nat /\ DOMAIN queue = 1..Len(queue)
        /\ \A k \in DOMAIN queue : queue'[k] = queue[k]
        /\ queue'[n].action = op.action /\ queue'[n].id = op.id /\ queue'[n].vals = op.row.vals
        /\ queue'[n].base = op.base.vals /\ queue'[n].version = op.row.version
        /\ queue'[n].dirty = IF op.action = "create" THEN {} ELSE op.dirty
    BY EnqueueDoes
  <1>2. n \in Nat \ {0} /\ \A k \in DOMAIN queue : k \in Nat \ {0} /\ k < n
    BY <1>1
  <1>3. Made' = Made /\ (Carried' <=> Carried)
    BY <1>1 DEF Made, Carried
  <1>4. \A k \in DOMAIN queue : Thing(queue[k].id)' = Thing(queue[k].id)
    BY <1>1 DEF Thing
  <1>5. Thing(queue[n].id)' = Thing(op.id)
    BY <1>1 DEF Thing
  <1>6. PendingOf(t)' = PendingOf(t) \cup {k \in {n} : t = Thing(op.id)}
    BY <1>1, <1>4, <1>5 DEF PendingOf
  <1>7. Carried => n # 1
    <2>1. Carried => queue # <<>> /\ queue \in Seq(Mutations)
      BY DEF Carried, TypeOK, FlushOK, IsQueue
    <2>2. Carried => 1 \in DOMAIN queue
      BY <2>1
    <2> QED
      BY <1>1, <2>2
  <1>8. PendingOf(t) \subseteq DOMAIN queue /\ Writes(t, c) \subseteq PendingOf(t)
    BY LinksNat
  <1>9. Writes(t, c)' = Writes(t, c) \cup {k \in {n} : /\ t = Thing(op.id) /\ c \in SetBy(op.action)
                                                       /\ op.action = "create" => t \notin Made}
    BY <1>1, <1>3, <1>6, <1>7, <1>8 DEF Writes
  <1>10. ASSUME NEW k \in DOMAIN queue PROVE Bystander(t, k, c)' <=> Bystander(t, k, c)
    <2>1. Alone(t, k)' <=> Alone(t, k)
      <3>1. ~ (n < k)
        BY <1>2
      <3> QED
        BY <1>1, <1>6, <1>8, <3>1 DEF Alone
    <2>2. Merges(t, k)' <=> Merges(t, k)
      BY <1>1 DEF Merges
    <2> QED
      BY <1>1, <2>1, <2>2 DEF Bystander
  <1>11. \A k \in DOMAIN queue' : Bases(c)'[k] = queue'[k].base[c] /\ Vals(c)'[k] = queue'[k].vals[c]
    BY DEF Bases, Vals
  <1>12. \A k \in DOMAIN queue : Bases(c)[k] = queue[k].base[c] /\ Vals(c)[k] = queue[k].vals[c]
    BY DEF Bases, Vals
  <1>13. Bystander(t, n, c)' => t \in Made /\ op.action # "create" /\ c \notin op.dirty
    BY <1>1 DEF Bystander, Merges, Made
  <1>14. ASSUME PendingOf(t) = {}, op.action # "create", c \notin op.dirty, ~ Bystander(t, n, c)', t = Thing(op.id),
                NEW i \in DOMAIN server, server[i].thing = t
         PROVE  ~ (op.row.version < server[i].version)
    <2>1. Alone(t, n)'
      BY <1>2, <1>6, <1>14 DEF Alone
    <2>2. ~ Merges(t, n)'
      BY <1>1, <1>14, <2>1 DEF Bystander
    <2> QED
      BY <1>1, <1>14, <2>2 DEF Merges
  <1>15. \A k \in DOMAIN queue : /\ Bystander(t, k, c)' <=> Bystander(t, k, c)
                                 /\ queue'[k] = queue[k] /\ k \in DOMAIN queue'
                                 /\ Bases(c)'[k] = Bases(c)[k] /\ Vals(c)'[k] = Vals(c)[k]
    <2> SUFFICES ASSUME NEW k \in DOMAIN queue
                 PROVE  /\ queue'[k] = queue[k] /\ k \in DOMAIN queue'
                        /\ Bases(c)'[k] = Bases(c)[k] /\ Vals(c)'[k] = Vals(c)[k]
      BY <1>10
    <2>1. queue'[k] = queue[k] /\ k \in DOMAIN queue'
      BY <1>1
    <2>2. Bases(c)'[k] = queue'[k].base[c] /\ Vals(c)'[k] = queue'[k].vals[c]
      BY <1>11, <2>1
    <2>3. Bases(c)[k] = queue[k].base[c] /\ Vals(c)[k] = queue[k].vals[c]
      BY <1>12
    <2> QED
      BY <2>1, <2>2, <2>3
  <1>16. n \in DOMAIN queue' /\ Bases(c)'[n] = op.base.vals[c] /\ Vals(c)'[n] = op.row.vals[c]
    <2>1. n \in DOMAIN queue'
      BY <1>1
    <2>2. Bases(c)'[n] = queue'[n].base[c] /\ Vals(c)'[n] = queue'[n].vals[c]
      BY <1>11, <2>1
    <2> QED
      BY <1>1, <2>1, <2>2
  <1>17. PendingOf(t) = {} /\ op.action # "create" /\ c \notin op.dirty /\ ~ Bystander(t, n, c)' /\ t = Thing(op.id) =>
              \A i \in DOMAIN server : server[i].thing = t => ~ (op.row.version < server[i].version)
    BY <1>14
  <1>18. UNCHANGED <<server, fl>>
    BY <1>1
  <1> QED
    BY <1>2, <1>3, <1>6, <1>9, <1>13, <1>15, <1>16, <1>17, <1>18

LEMMA GreatestIs ==
  ASSUME NEW N \in Nat, NEW S \in SUBSET (1..N), S # {}
  PROVE  Max(S) \in S /\ \A n \in S : n <= Max(S)
  <1> DEFINE U == {x \in Nat : \A j \in S : j <= x}
  <1>1. N \in U
    OBVIOUS
  <1>2. U \in SUBSET Nat /\ U # {}
    BY <1>1
  <1>3. PICK x \in U : \A y \in U : x <= y
    <2> HIDE DEF U
    <2> QED
      BY <1>2, LeastIs
  <1>4. x \in S
    <2> SUFFICES ASSUME x \notin S PROVE FALSE
      OBVIOUS
    <2>1. PICK j \in S : j \in Nat /\ 1 <= j
      <3>1. PICK j : j \in S
        BY Zenon
      <3> QED
        BY <3>1
    <2>2. x \in Nat /\ 1 <= x
      BY <1>3, <2>1
    <2>3. \A i \in S : i <= x - 1
      <3> TAKE i \in S
      <3>1. i <= x /\ i # x /\ i \in Nat
        BY <1>3
      <3> QED
        BY <2>2, <3>1
    <2>4. x - 1 \in U
      BY <2>2, <2>3
    <2>5. x <= x - 1
      BY <1>3, <2>4
    <2> QED
      BY <2>2, <2>5
  <1>5. \A j \in S : x >= j
    BY <1>3
  <1>6. Max(S) = CHOOSE y \in S : \A j \in S : y >= j
    BY DEF Max
  <1>7. Max(S) \in S /\ \A j \in S : Max(S) >= j
    <2> DEFINE P(y) == \A j \in S : y >= j
    <2>1. x \in S /\ P(x)
      BY <1>4, <1>5
    <2>2. Max(S) = CHOOSE y \in S : P(y)
      BY <1>6
    <2> HIDE DEF P
    <2>3. Max(S) \in S /\ P(Max(S))
      BY <2>1, <2>2, Zenon
    <2> QED
      BY <2>3 DEF P
  <1>8. \A j \in S : j \in Nat
    OBVIOUS
  <1> QED
    BY <1>7, <1>8

(* What a column will be before a mutation.                                *)
LEMMA BeforeIs ==
  ASSUME TypeOK, MadeOnce, NEW t \in Things, t \notin doubled, NEW c \in Columns, NEW k \in 1..(Len(queue) + 1)
  PROVE  /\ \A j \in Writes(t, c) : j < k /\ (\A l \in Writes(t, c) : l <= j \/ k <= l) => Before(t, c, k) = queue[j].vals[c]
         /\ \A i \in DOMAIN server : server[i].thing = t /\ (\A l \in Writes(t, c) : k <= l) =>
              Before(t, c, k) = server[i].vals[c]
  <1> DEFINE js == {j \in Writes(t, c) : j < k}
  <1>1. queue \in Seq(Mutations) /\ Len(queue) \in Nat /\ DOMAIN queue = 1..Len(queue)
    BY DEF TypeOK, IsQueue
  <1>2. Writes(t, c) \subseteq 1..Len(queue)
    BY <1>1, LinksNat
  <1>3. ASSUME NEW j \in Writes(t, c), j < k, \A l \in Writes(t, c) : l <= j \/ k <= l
        PROVE  Before(t, c, k) = queue[j].vals[c]
    <2>1. js \in SUBSET (1..Len(queue)) /\ js # {} /\ j \in js
      BY <1>2, <1>3
    <2>2. Max(js) \in js /\ j <= Max(js)
      <3> HIDE DEF js
      <3> QED
        BY <1>1, <2>1, GreatestIs
    <2>3. Max(js) <= j
      <3>1. Max(js) \in Writes(t, c) /\ Max(js) < k
        BY <2>2
      <3>2. Max(js) <= j \/ k <= Max(js)
        BY <1>3, <3>1
      <3>3. Max(js) \in Nat /\ k \in Nat
        BY <1>1, <1>2, <3>1
      <3> QED
        BY <3>1, <3>2, <3>3
    <2>4. Max(js) = j
      <3>1. Max(js) \in Nat /\ j \in Nat
        BY <1>2, <2>2
      <3> QED
        BY <2>2, <2>3, <3>1
    <2> QED
      BY <2>1, <2>4 DEF Before
  <1>4. ASSUME NEW i \in DOMAIN server, server[i].thing = t, \A l \in Writes(t, c) : k <= l
        PROVE  Before(t, c, k) = server[i].vals[c]
    <2>1. js = {}
      <3>1. \A l \in Writes(t, c) : ~ (l < k)
        BY <1>1, <1>2, <1>4
      <3> QED
        BY <3>1
    <2>2. t \in Made
      BY <1>4 DEF Made
    <2>3. (CHOOSE x \in DOMAIN server : server[x].thing = t) = i
      BY <1>4 DEF MadeOnce
    <2> QED
      BY <2>1, <2>2, <2>3 DEF Before
  <1> QED
    BY <1>3, <1>4

(* A creation that is not done is the first of what is pending of its item.*)
LEMMA CreationIsFirst ==
  ASSUME TypeOK, SyncInv, NEW t \in Things, ~ Doomed(t), NEW c \in Columns,
         NEW k \in Writes(t, c), queue[k].action = "create"
  PROVE  \A j \in Writes(t, c) : k <= j
  <1> SUFFICES ASSUME NEW j \in Writes(t, c), ~ (k <= j) PROVE FALSE
    OBVIOUS
  <1>1. /\ k \in DOMAIN queue /\ j \in DOMAIN queue /\ Thing(queue[k].id) = t /\ Thing(queue[j].id) = t
        /\ IsId(queue[j].id) /\ t \notin Made /\ k \in Nat /\ j \in Nat
    BY LinksNat DEF Writes, PendingOf
  <1>2. \A i \in DOMAIN queue : queue[i].action = "create" /\ Thing(queue[i].id) = t => i = k
    BY <1>1 DEF SyncInv, QueueInv, MutationOK
  <1>3. queue[j].action # "create"
    BY <1>1, <1>2
  <1>4. queue[j].id < 0
    <2>1. queue[j].id \in DOMAIN server => t \in Made
      BY <1>1, MadeIs
    <2> QED
      BY <1>1, <2>1, ThingIs DEF TypeOK
  <1>5. fl.at = "retarget" => j \notin fl.todo
    <2> SUFFICES ASSUME fl.at = "retarget", j \in fl.todo PROVE FALSE
      OBVIOUS
    <2>1. Thing(queue[j].id) = server[fl.got].thing /\ fl.got \in DOMAIN server
      BY DEF SyncInv, FlushInv, TypeOK, FlushOK
    <2> QED
      BY <1>1, <2>1 DEF Made
  <1>6. Refused(j)
    <2>1. \A i \in DOMAIN queue : i < j /\ queue[i].action = "create" => queue[i].id # queue[j].id
      <3> SUFFICES ASSUME NEW i \in DOMAIN queue, i < j, queue[i].action = "create", queue[i].id = queue[j].id PROVE FALSE
        OBVIOUS
      <3>1. i = k
        BY <1>1, <1>2
      <3> QED
        BY <1>1, <3>1
    <2> QED
      BY <1>3, <1>4, <1>5, <2>1 DEF Refused
  <1> QED
    BY <1>1, <1>6 DEF Doomed, PendingOf

(* All of a column makes a chain if it is built on one another.            *)
LEMMA BuiltChain ==
  ASSUME TypeOK, SyncInv, MadeOnce, NEW t \in Things, t \notin doubled, ~ Doomed(t), NEW c \in Columns,
         NEW e, BuildsOn(t, c, e)
  PROVE  /\ IsChain(Writes(t, c), Bases(c), Vals(c), e)
         /\ \A i \in DOMAIN server : server[i].thing = t =>
              Fits(Writes(t, c), Bases(c), Vals(c), e, server[i].vals[c])
  <1>1. PICK W, B, V : W = Writes(t, c) /\ B = Bases(c) /\ V = Vals(c)
    OBVIOUS
  <1>2. queue \in Seq(Mutations) /\ Len(queue) \in Nat /\ DOMAIN queue = 1..Len(queue)
    BY DEF TypeOK, IsQueue
  <1>3. W \subseteq 1..Len(queue) /\ W \in SUBSET Nat
    BY <1>1, <1>2, LinksNat
  <1>4. \A k \in W : B[k] = queue[k].base[c] /\ V[k] = queue[k].vals[c] /\ k \in 1..(Len(queue) + 1)
                     /\ (queue[k].action # "create" => B[k] = Before(t, c, k))
    BY <1>1, <1>2, <1>3, LinksNat DEF BuildsOn
  <1>5. e = Before(t, c, Len(queue) + 1) /\ Len(queue) + 1 \in 1..(Len(queue) + 1)
    BY <1>2 DEF BuildsOn
  <1>6. ASSUME NEW j \in W, NEW k \in W, Adjacent(W, j, k) PROVE B[k] = V[j]
    <2>1. queue[k].action # "create"
      <3>1. ~ (k <= j)
        BY <1>3, <1>6 DEF Adjacent
      <3> QED
        BY <1>1, <1>6, <3>1, CreationIsFirst
    <2>2. Before(t, c, k) = queue[j].vals[c]
      BY <1>1, <1>4, <1>6, BeforeIs DEF Adjacent
    <2> QED
      BY <1>4, <2>1, <2>2
  <1>7. ASSUME NEW k \in W, LastOf(W, k) PROVE V[k] = e
    <2>1. k < Len(queue) + 1 /\ \A l \in W : l <= k
      BY <1>2, <1>3, <1>7 DEF LastOf
    <2> QED
      BY <1>1, <1>4, <1>5, <2>1, BeforeIs
  <1>8. IsChain(W, B, V, e)
    BY <1>6, <1>7 DEF IsChain
  <1>9. ASSUME NEW i \in DOMAIN server, server[i].thing = t
        PROVE  Fits(W, B, V, e, server[i].vals[c])
    <2>1. CASE W = {}
      <3>1. e = server[i].vals[c]
        BY <1>1, <1>5, <1>9, <2>1, BeforeIs, ZenonT(40)
      <3> QED
        BY <2>1, <3>1 DEF Fits
    <2>2. CASE W # {}
      <3>1. PICK k \in W : FirstOf(W, k)
        BY <1>3, <2>2, HasFirst
      <3>2. Before(t, c, k) = server[i].vals[c]
        BY <1>1, <1>4, <1>9, <3>1, BeforeIs DEF FirstOf
      <3>3. queue[k].action # "create"
        <4>1. t \in Made
          BY <1>9 DEF Made
        <4> QED
          BY <1>1, <3>1, <4>1 DEF Writes
      <3> QED
        BY <1>4, <3>1, <3>2, <3>3 DEF Fits
    <2> QED
      BY <2>1, <2>2
  <1> QED
    BY <1>1, <1>8, <1>9

----------------------------------------
(* A chain depends on what its mutations have of the column alone.         *)
LEMMA SameChain ==
  ASSUME NEW L, NEW B, NEW V, NEW C, NEW W, NEW e, \A k \in L : C[k] = B[k] /\ W[k] = V[k], IsChain(L, B, V, e)
  PROVE  IsChain(L, C, W, e) /\ \A v : Fits(L, B, V, e, v) => Fits(L, C, W, e, v)
  <1>1. IsChain(L, C, W, e)
    BY DEF IsChain
  <1>2. ASSUME NEW v, Fits(L, B, V, e, v) PROVE Fits(L, C, W, e, v)
    BY <1>2 DEF Fits
  <1> QED
    BY <1>1, <1>2

(* A call whose item has no creation in the queue is refused.              *)
LEMMA EnqueueRefused ==
  ASSUME TypeOK, TypeOK', SyncInv, _enqueue, NEW t \in Things, t = Thing(op.id), ~ Doomed(t)', op.action # "create", op.id < 0
  PROVE  \E j \in PendingOf(t) : queue[j].action = "create" /\ queue[j].id = op.id
  <1> SUFFICES ASSUME \A j \in PendingOf(t) : queue[j].action = "create" => queue[j].id # op.id PROVE FALSE
    OBVIOUS
  <1>1. PICK n : n = Len(queue) + 1
    OBVIOUS
  <1>2. /\ n \in DOMAIN queue' /\ n \in Nat /\ DOMAIN queue' = DOMAIN queue \cup {n} /\ n \notin DOMAIN queue /\ fl' = fl
        /\ \A k \in DOMAIN queue : queue'[k] = queue[k]
        /\ queue'[n].action = op.action /\ queue'[n].id = op.id
    BY <1>1, EnqueueDoes
  <1>3. \A j \in DOMAIN queue : queue[j].id = op.id => j \in PendingOf(t)
    BY DEF PendingOf
  <1>4. \A j \in DOMAIN queue' : j < n /\ queue'[j].action = "create" => queue'[j].id # op.id
    <2> TAKE j \in DOMAIN queue'
    <2>1. CASE j = n
      BY <1>2, <2>1
    <2>2. CASE j # n
      BY <1>2, <1>3, <2>2
    <2> QED
      BY <2>1, <2>2
  <1>5. fl'.at = "retarget" => n \notin fl'.todo
    BY <1>2 DEF TypeOK, FlushOK
  <1>6. Refused(n)'
    BY <1>2, <1>4, <1>5 DEF Refused
  <1>7. n \in PendingOf(t)'
    <2>1. Thing(queue[n].id)' = t
      BY <1>2 DEF Thing
    <2> QED
      BY <1>2, <2>1 DEF PendingOf
  <1> QED
    BY <1>6, <1>7 DEF Doomed

LEMMA EnqueueSame ==
  ASSUME TypeOK, TypeOK', _enqueue, NEW t \in Things, NEW c \in Columns, ChainOf(t, c), mine'[t][c] = mine[t][c],
         Len(queue) + 1 \notin Links(t, c)'
  PROVE  ChainOf(t, c)'
  <1>1. PICK n : n = Len(queue) + 1
    OBVIOUS
  <1>2. PICK L, B, V, e : L = Links(t, c) /\ B = Bases(c) /\ V = Vals(c) /\ e = mine[t][c]
    OBVIOUS
  <1>3. PICK S, C, W : S = Links(t, c)' /\ C = Bases(c)' /\ W = Vals(c)'
    OBVIOUS
  <1>4. /\ \A k \in DOMAIN queue : k \in Nat \ {0} /\ k < n
        /\ UNCHANGED server /\ Made' = Made
        /\ Writes(t, c)' \subseteq Writes(t, c) \cup {n} /\ Writes(t, c) \subseteq Writes(t, c)'
        /\ \A k \in DOMAIN queue : /\ Bystander(t, k, c)' <=> Bystander(t, k, c)
                                   /\ queue'[k] = queue[k]
                                   /\ C[k] = B[k] /\ W[k] = V[k]
    BY <1>1, <1>2, <1>3, EnqueueLinks
  <1>5. Writes(t, c) \subseteq DOMAIN queue /\ L \subseteq DOMAIN queue /\ L \in SUBSET Nat
    BY <1>2, LinksNat
  <1>6. S = L
    BY <1>1, <1>2, <1>3, <1>4, <1>5 DEF Links
  <1>7. \A k \in L : C[k] = B[k] /\ W[k] = V[k]
    BY <1>4, <1>5
  <1>8. IsChain(L, B, V, e) /\ \A i \in DOMAIN server : server[i].thing = t => Fits(L, B, V, e, server[i].vals[c])
    BY <1>2 DEF ChainOf
  <1>9. IsChain(S, C, W, e) /\ \A v : Fits(L, B, V, e, v) => Fits(S, C, W, e, v)
    BY <1>6, <1>7, <1>8, SameChain
  <1>10. t \notin Made' => \E k \in S : FirstOf(S, k) /\ queue'[k].action = "create"
    BY <1>2, <1>4, <1>5, <1>6 DEF ChainOf
  <1>11. \A i \in DOMAIN server' : server'[i].thing = t => Fits(S, C, W, e, server'[i].vals[c])
    BY <1>4, <1>8, <1>9
  <1> QED
    BY <1>2, <1>3, <1>9, <1>10, <1>11 DEF ChainOf

LEMMA EnqueueLast ==
  ASSUME TypeOK, TypeOK', _enqueue, NEW t \in Things, NEW c \in Columns, NEW e, e = op.base.vals[c],
         IsChain(Links(t, c), Bases(c), Vals(c), e),
         \A i \in DOMAIN server : server[i].thing = t => Fits(Links(t, c), Bases(c), Vals(c), e, server[i].vals[c]),
         t \notin Made =>
            \/ \E k \in Links(t, c) : FirstOf(Links(t, c), k) /\ queue[k].action = "create"
            \/ Links(t, c) = {} /\ op.action = "create",
         Len(queue) + 1 \in Links(t, c)', mine'[t][c] = op.row.vals[c]
  PROVE  ChainOf(t, c)'
  <1>1. PICK n : n = Len(queue) + 1
    OBVIOUS
  <1>2. PICK L, B, V : L = Links(t, c) /\ B = Bases(c) /\ V = Vals(c)
    OBVIOUS
  <1>3. PICK S, C, W : S = Links(t, c)' /\ C = Bases(c)' /\ W = Vals(c)'
    OBVIOUS
  <1>4. /\ n \in Nat /\ \A k \in DOMAIN queue : k \in Nat \ {0} /\ k < n
        /\ UNCHANGED server /\ Made' = Made
        /\ Writes(t, c)' \subseteq Writes(t, c) \cup {n} /\ Writes(t, c) \subseteq Writes(t, c)'
        /\ \A k \in DOMAIN queue : /\ Bystander(t, k, c)' <=> Bystander(t, k, c)
                                   /\ queue'[k] = queue[k]
                                   /\ C[k] = B[k] /\ W[k] = V[k]
        /\ C[n] = e /\ W[n] = op.row.vals[c]
    BY <1>1, <1>2, <1>3, EnqueueLinks
  <1>5. Writes(t, c) \subseteq DOMAIN queue /\ L \subseteq DOMAIN queue /\ L \in SUBSET Nat
    BY <1>2, LinksNat
  <1>6. S = L \cup {n}
    BY <1>1, <1>2, <1>3, <1>4, <1>5 DEF Links
  <1>7. \A k \in L : C[k] = B[k] /\ W[k] = V[k] /\ k < n
    BY <1>4, <1>5
  <1>8. IsChain(L, C, W, e) /\ \A v : Fits(L, B, V, e, v) => Fits(L, C, W, e, v)
    BY <1>2, <1>7, SameChain
  <1>9. IsChain(S, C, W, W[n]) /\ \A v : Fits(L, C, W, e, v) => Fits(S, C, W, W[n], v)
    BY <1>4, <1>5, <1>6, <1>7, <1>8, AddLast
  <1>10. t \notin Made' => \E k \in S : FirstOf(S, k) /\ queue'[k].action = "create"
    <2> SUFFICES ASSUME t \notin Made PROVE \E k \in S : FirstOf(S, k) /\ queue'[k].action = "create"
      BY <1>4
    <2>1. CASE \E k \in L : FirstOf(L, k) /\ queue[k].action = "create"
      <3>1. PICK k \in L : FirstOf(L, k) /\ queue[k].action = "create"
        BY <2>1
      <3>2. queue'[k].action = "create" /\ k <= n
        BY <1>4, <1>5, <3>1
      <3> QED
        BY <1>6, <3>1, <3>2 DEF FirstOf
    <2>2. CASE L = {} /\ op.action = "create"
      <3>1. queue'[n].action = "create"
        BY <1>1, <2>2, EnqueueDoes
      <3>2. FirstOf(S, n)
        BY <1>4, <1>6, <2>2 DEF FirstOf
      <3> QED
        BY <1>6, <3>1, <3>2
    <2> QED
      BY <1>2, <2>1, <2>2
  <1>11. \A i \in DOMAIN server' : server'[i].thing = t => Fits(S, C, W, W[n], server'[i].vals[c])
    BY <1>2, <1>4, <1>8, <1>9
  <1>12. mine'[t][c] = W[n]
    BY <1>4
  <1> QED
    BY <1>3, <1>9, <1>10, <1>11, <1>12 DEF ChainOf

----------------------------------------
(* What the call has changed itself is built on all that is pending.       *)
LEMMA EnqueueBuilt ==
  ASSUME TypeOK, TypeOK', SyncInv, MadeOnce, _enqueue, NEW t \in Things, t = Thing(op.id), NEW c \in op.dirty, c \in Columns,
         op.action # "create", BuildsOn(t, c, op.base.vals[c]), mine'[t][c] = op.row.vals[c],
         t \notin doubled, t \notin undated, ~ Doomed(t), ~ Doomed(t)'
  PROVE  ChainOf(t, c)'
  <1>1. PICK n : n = Len(queue) + 1
    OBVIOUS
  <1>2. PICK L, B, V, e : L = Links(t, c) /\ B = Bases(c) /\ V = Vals(c) /\ e = op.base.vals[c]
    OBVIOUS
  <1>3. PICK H : H = Writes(t, c)
    OBVIOUS
  <1>4. op.at = "queue" /\ op.action \in {"update", "status_update"} /\ IsId(op.id)
    BY EnqueueDoes DEF Actions
  <1>5. c \in SetBy(op.action)
    <2>1. op.action = "status_update" => c = "status"
      BY <1>4 DEF SyncInv, OpInv
    <2>2. op.action = "update" => c \in Fields
      BY <1>4 DEF SyncInv, OpInv, Calling
    <2> QED
      BY <1>4, <2>1, <2>2 DEF SetBy
  <1>6. n \in Links(t, c)'
    <2>1. n \in Writes(t, c)'
      BY <1>1, <1>5, EnqueueLinks
    <2>2. ~ Bystander(t, n, c)'
      BY <1>1, EnqueueLinks
    <2> QED
      BY <2>1, <2>2 DEF Links
  <1>7. IsChain(H, B, V, e) /\ \A i \in DOMAIN server : server[i].thing = t => Fits(H, B, V, e, server[i].vals[c])
    BY <1>2, <1>3, BuiltChain
  <1>8. L \subseteq H /\ H \subseteq DOMAIN queue /\ H \in SUBSET Nat
    BY <1>2, <1>3, LinksNat
  <1>9. \A k \in H \ L : FirstOf(H, k) /\ B[k] = V[k]
    <2> TAKE k \in H \ L
    <2>1. Bystander(t, k, c) /\ k \in DOMAIN queue /\ k \in Writes(t, c)
      BY <1>2, <1>3, <1>8 DEF Links
    <2>2. t \in Made /\ Alone(t, k) /\ queue[k].action # "create" /\ c \notin queue[k].dirty
      BY <2>1 DEF Bystander, Merges, Made
    <2>3. FirstOf(H, k)
      BY <1>3, <2>1, <2>2, AloneIsFirst DEF FirstOf
    <2>4. c \in SetBy(queue[k].action)
      BY <2>1 DEF Writes
    <2>5. queue[k].base[c] = queue[k].vals[c]
      BY <2>1, <2>2, <2>4, IdleBase DEF SyncInv
    <2> QED
      BY <1>2, <2>1, <2>3, <2>5, LinksNat
  <1>10. IsChain(L, B, V, e) /\ \A v : Fits(H, B, V, e, v) => Fits(L, B, V, e, v)
    BY <1>7, <1>8, <1>9, DropIdle
  <1>11. ASSUME t \notin Made PROVE \E k \in L : FirstOf(L, k) /\ queue[k].action = "create"
    <2>1. op.id < 0
      <3>1. op.id \in DOMAIN server => t \in Made
        BY MadeIs
      <3> QED
        BY <1>11, <1>4, <3>1, ThingIs DEF TypeOK
    <2>2. PICK j \in PendingOf(t) : queue[j].action = "create" /\ queue[j].id = op.id
      BY <2>1, EnqueueRefused
    <2>3. Carried => j # 1
      <3> SUFFICES ASSUME Carried, j = 1 PROVE FALSE
        OBVIOUS
      <3>1. 1 \in DOMAIN queue /\ Thing(queue[1].id) = t /\ queue[1].action = "create"
        BY <2>2 DEF PendingOf
      <3>2. queue[1].key = t
        BY <3>1 DEF SyncInv, QueueInv, MutationOK
      <3>3. queue[1].id \in DOMAIN server
        BY <3>1, <3>2 DEF Carried, SyncInv, FlushInv, TypeOK, FlushOK
      <3> QED
        BY <1>11, <3>1, <3>3, MadeIs
    <2>4. j \in Writes(t, c)
      BY <1>11, <2>2, <2>3 DEF Writes, SetBy
    <2>5. j \in L
      BY <1>2, <2>2, <2>4 DEF Links, Bystander
    <2>6. \A l \in H : j <= l
      BY <1>3, <2>2, <2>4, CreationIsFirst
    <2> QED
      BY <1>8, <2>2, <2>5, <2>6 DEF FirstOf
  <1>12. \A i \in DOMAIN server : server[i].thing = t => Fits(L, B, V, e, server[i].vals[c])
    BY <1>7, <1>10
  <1> QED
    BY <1>1, <1>2, <1>6, <1>10, <1>11, <1>12, EnqueueLast

(* What a form has of another field is what was promised of it.            *)
LEMMA EnqueueKept ==
  ASSUME TypeOK, TypeOK', SyncInv, OpRow, _enqueue, NEW t \in Things, t = Thing(op.id), NEW c \in Fields, c \in Columns,
         c \notin op.dirty, op.action = "update", ChainOf(t, c), mine'[t][c] = mine[t][c], mine[t][c] # Null,
         PendingOf(t) = {} \/ op.row.vals[c] = mine[t][c],
         t \notin doubled, <<t, c>> \notin touched, ~ Gone(t), ~ Doomed(t)'
  PROVE  ChainOf(t, c)'
  <1>1. PICK n : n = Len(queue) + 1
    OBVIOUS
  <1>2. op.at = "queue" /\ IsId(op.id) /\ op.row \in Rows
    BY EnqueueDoes
  <1>3. op.base.vals[c] = op.row.vals[c]
    BY <1>2 DEF SyncInv, OpInv
  <1>4. CASE n \notin Links(t, c)'
    BY <1>1, <1>4, EnqueueSame
  <1>5. CASE n \in Links(t, c)'
    <2>1. op.row.vals[c] = mine[t][c]
      <3>1. CASE PendingOf(t) = {}
        <4>1. Links(t, c) = {} /\ Writes(t, c) = {}
          BY <3>1, LinksNat
        <4>2. t \in Made
          BY <4>1 DEF ChainOf
        <4>3. op.id \in DOMAIN server
          <5>1. ~ (op.id < 0)
            BY <3>1, EnqueueRefused
          <5> QED
            BY <1>2, <5>1, ThingIs DEF TypeOK
        <4>4. server[op.id].thing = t /\ op.id \in Nat \ {0}
          BY <4>3, MadeIs
        <4>5. ~ Bystander(t, n, c)'
          BY <1>5 DEF Links
        <4>6. ~ (op.row.version < server[op.id].version)
          BY <1>1, <3>1, <4>3, <4>4, <4>5, EnqueueLinks
        <4>7. op.row.version = server[op.id].version
          <5>1. op.row.version \in 1..server[op.id].version /\ server[op.id].version \in Nat
            BY <1>2, <4>3, ServerItem DEF SyncInv, OpInv, Calling, NotAhead, TypeOK
          <5> QED
            BY <4>6, <5>1
        <4>8. Knows(op.id, c, op.row.vals[c])
          <5>1. ~ Excused(op.id, c)
            BY <4>3, <4>4 DEF Excused, Gone
          <5> QED
            BY <1>2, <4>3, <4>4, <4>7, <5>1 DEF OpRow, Calling, Fresh
        <4>9. op.row.vals[c] = server[op.id].vals[c]
          BY <4>1, <4>4, <4>8 DEF Knows
        <4>10. Fits(Links(t, c), Bases(c), Vals(c), mine[t][c], server[op.id].vals[c])
          BY <4>3, <4>4 DEF ChainOf
        <4> QED
          BY <4>1, <4>9, <4>10 DEF Fits
      <3> QED
        BY <3>1
    <2>2. PICK e : e = op.base.vals[c] /\ e = mine[t][c]
      BY <1>3, <2>1
    <2>3. IsChain(Links(t, c), Bases(c), Vals(c), e)
      BY <2>2 DEF ChainOf
    <2>4. \A i \in DOMAIN server : server[i].thing = t => Fits(Links(t, c), Bases(c), Vals(c), e, server[i].vals[c])
      BY <2>2 DEF ChainOf
    <2>5. t \notin Made => \E k \in Links(t, c) : FirstOf(Links(t, c), k) /\ queue[k].action = "create"
      BY DEF ChainOf
    <2> QED
      BY <1>1, <1>5, <2>1, <2>2, <2>3, <2>4, <2>5, EnqueueLast
  <1> QED
    BY <1>4, <1>5

LEMMA EnqueueChain ==
  ASSUME TypeOK, TypeOK', SyncInv, CreationsInv, MadeOnce, mine \in Histories, OpRow, _enqueue,
         NEW t \in Things, NEW c \in Columns, Chains, Promised(t, c)',
         t \notin doubled /\ t \notin undated /\ <<t, c>> \notin touched /\ ~ Doomed(t) /\ ~ Gone(t), mine'[t][c] = mine[t][c] => Promised(t, c)
  PROVE  ChainOf(t, c)'
  <1>1. mine'[t][c] # Null /\ ~ Doomed(t)'
    BY DEF Promised
  <1>2. mine'[t][c] = mine[t][c] => ChainOf(t, c)
    BY DEF Chains
  <1>3. op.at = "queue" /\ op.action \in Actions /\ IsId(op.id) /\ Calling
    BY EnqueueDoes DEF Calling
  <1>4. CASE t # Thing(op.id)
    <2>1. mine'[t][c] = mine[t][c]
      BY <1>4, QueuePromises
    <2>2. Len(queue) + 1 \notin Links(t, c)'
      <3>1. PICK n : n = Len(queue) + 1
        OBVIOUS
      <3>2. n \in Writes(t, c)' => n \in Writes(t, c) \/ (t = Thing(op.id) /\ c \in SetBy(op.action))
        BY <3>1, EnqueueLinks
      <3>3. n \notin DOMAIN queue
        BY <3>1, EnqueueDoes
      <3>4. Writes(t, c) \subseteq DOMAIN queue
        BY LinksNat
      <3> QED
        BY <1>4, <3>1, <3>2, <3>3, <3>4 DEF Links
    <2> QED
      BY <1>2, <2>1, <2>2, EnqueueSame
  <1>5. CASE t = Thing(op.id) /\ c \in op.dirty
    <2>1. /\ mine'[t][c] = op.row.vals[c]
          /\ op.action = "create" \/ BuildsOn(t, c, op.base.vals[c])
      BY <1>1, <1>5, QueuePromises
    <2>2. CASE op.action # "create"
      BY <1>1, <1>5, <2>1, <2>2, EnqueueBuilt
    <2>3. CASE op.action = "create"
      <3>1. t = - op.id /\ op.id < 0
        <4>1. - op.id \in 1..ops /\ ops \in Nat
          BY <1>3, <2>3 DEF TypeOK, OpOK, ServerOK
        <4>2. op.id \in Int
          BY DEF TypeOK, OpOK
        <4>3. op.id < 0
          BY <4>1, <4>2
        <4> QED
          BY <1>5, <4>3 DEF Thing
      <3>2. PendingOf(t) = {} /\ t \notin Made
        BY <1>3, <2>3, <3>1, NothingPending DEF Creating
      <3>3. PICK n, e : n = Len(queue) + 1 /\ e = op.base.vals[c]
        OBVIOUS
      <3>4. Links(t, c) = {}
        BY <3>2, LinksNat
      <3>5. n \in Links(t, c)'
        <4>1. n \in Writes(t, c)'
          BY <1>5, <2>3, <3>2, <3>3, EnqueueLinks DEF SetBy
        <4>2. ~ Bystander(t, n, c)'
          BY <2>3, <3>3, EnqueueLinks
        <4> QED
          BY <4>1, <4>2 DEF Links
      <3>6. IsChain(Links(t, c), Bases(c), Vals(c), e)
        BY <3>4 DEF IsChain
      <3>7. \A i \in DOMAIN server : server[i].thing = t => Fits(Links(t, c), Bases(c), Vals(c), e, server[i].vals[c])
        BY <3>2 DEF Made
      <3> QED
        BY <2>1, <2>3, <3>3, <3>4, <3>5, <3>6, <3>7, EnqueueLast
    <2> QED
      BY <2>2, <2>3
  <1>6. CASE t = Thing(op.id) /\ c \notin op.dirty
    <2>1. /\ mine'[t][c] = mine[t][c]
          /\ PendingOf(t) = {} \/ c \notin SetBy(op.action) \/ op.row.vals[c] = mine[t][c]
      BY <1>1, <1>6, QueuePromises
    <2>2. ChainOf(t, c) /\ mine[t][c] # Null
      BY <1>1, <1>2, <2>1
    <2>3. CASE op.action = "update" /\ c \in Fields
      <3>1. c \in SetBy(op.action)
        BY <2>3 DEF SetBy
      <3> QED
        BY <1>1, <1>6, <2>1, <2>2, <2>3, <3>1, EnqueueKept
    <2>4. CASE ~ (op.action = "update" /\ c \in Fields)
      <3>1. op.action # "create"
        BY <1>3, <1>6 DEF SyncInv, OpInv
      <3>2. c \notin SetBy(op.action)
        <4>1. op.action = "status_update" => c # "status"
          BY <1>3, <1>6 DEF SyncInv, OpInv
        <4> QED
          BY <1>3, <2>4, <3>1, <4>1 DEF SetBy, Actions
      <3>3. Len(queue) + 1 \notin Links(t, c)'
        <4>1. PICK n : n = Len(queue) + 1
          OBVIOUS
        <4>2. n \in Writes(t, c)' => n \in Writes(t, c) \/ (t = Thing(op.id) /\ c \in SetBy(op.action))
          BY <4>1, EnqueueLinks
        <4>3. n \notin DOMAIN queue
          BY <4>1, EnqueueDoes
        <4>4. Writes(t, c) \subseteq DOMAIN queue
          BY LinksNat
        <4> QED
          BY <3>2, <4>1, <4>2, <4>3, <4>4 DEF Links
      <3> QED
        BY <2>1, <2>2, <3>3, EnqueueSame
    <2> QED
      BY <2>3, <2>4
  <1> QED
    BY <1>4, <1>5, <1>6

----------------------------------------
(* The app ends: what was carried is pending again, and a promise is kept  *)
(* for what gives what the rest is built on.                               *)
LEMMA CleanupPromises ==
  ASSUME TypeOK, TypeOK', SyncInv, MadeOnce, mine \in Histories, cleanupOrphanedItems, Carried, queue[1].action # "create",
         NEW t \in Things, t = Thing(queue[1].id), NEW c \in SetBy(queue[1].action), c \in Columns, mine'[t][c] # Null,
         t \notin doubled
  PROVE  /\ \A k \in Writes(t, c) : (\A j \in Writes(t, c) : k <= j) => queue[k].base[c] = queue[1].vals[c]
         /\ Writes(t, c) = {} => \A i \in DOMAIN server : server[i].thing = t => server[i].vals[c] = queue[1].vals[c]
  <1> DEFINE FirstBase(d) == IF Writes(t, d) # {} THEN queue[Min(Writes(t, d))].base[d] ELSE Before(t, d, 1)
  <1>1. queue \in Seq(Mutations) /\ queue # <<>>
    BY DEF TypeOK, IsQueue, FlushOK, Carried
  <1>2. Head(queue) = queue[1] /\ 1 \in DOMAIN queue /\ Len(queue) \in Nat
    BY <1>1
  <1>3. PICK columns : /\ columns = {d \in SetBy(queue[1].action) : queue[1].vals[d] # FirstBase(d)}
                       /\ mine' = Forget(mine, t, columns)
    BY <1>2 DEF cleanupOrphanedItems
  <1>4. c \notin columns
    <2> HIDE DEF FirstBase
    <2> QED
      BY <1>3, ForgetIs
  <1>5. queue[1].vals[c] = FirstBase(c)
    BY <1>3, <1>4
  <1>6. Writes(t, c) \in SUBSET Nat
    BY LinksNat
  <1>7. ASSUME NEW k \in Writes(t, c), \A j \in Writes(t, c) : k <= j PROVE queue[k].base[c] = queue[1].vals[c]
    <2>1. Min(Writes(t, c)) \in Writes(t, c) /\ Min(Writes(t, c)) <= k
      BY <1>6, <1>7, LeastIs
    <2>2. k <= Min(Writes(t, c)) /\ k \in Nat /\ Min(Writes(t, c)) \in Nat
      BY <1>6, <1>7, <2>1
    <2>3. k = Min(Writes(t, c))
      BY <2>1, <2>2
    <2> QED
      BY <1>5, <1>7, <2>3
  <1>8. ASSUME Writes(t, c) = {}, NEW i \in DOMAIN server, server[i].thing = t PROVE server[i].vals[c] = queue[1].vals[c]
    <2>1. 1 \in 1..(Len(queue) + 1)
      BY <1>2
    <2>2. Before(t, c, 1) = server[i].vals[c]
      BY <1>8, <2>1, BeforeIs
    <2> QED
      BY <1>5, <1>8, <2>2
  <1> QED
    BY <1>7, <1>8

LEMMA CleanupChain ==
  ASSUME TypeOK, TypeOK', SyncInv, MadeOnce, Later, mine \in Histories, cleanupOrphanedItems,
         NEW t \in Things, NEW c \in Columns, ChainOf(t, c), mine'[t][c] = mine[t][c], mine'[t][c] # Null,
         t \notin doubled, t \notin undated, ~ Doomed(t)
  PROVE  ChainOf(t, c)'
  <1>1. UNCHANGED <<server, queue>> /\ fl' = NoFlush
    BY DEF cleanupOrphanedItems
  <1>2. ~ Carried'
    BY <1>1 DEF Carried, NoFlush
  <1>3. CASE ~ Carried
    BY <1>1, <1>2, <1>3, QuietChain
  <1>4. CASE Carried
    <2>1. PICK L, B, V, e : L = Links(t, c) /\ B = Bases(c) /\ V = Vals(c) /\ e = mine[t][c]
      OBVIOUS
    <2>2. Bases(c)' = B /\ Vals(c)' = V /\ mine'[t][c] = e
      BY <1>1, <2>1 DEF Bases, Vals
    <2>3. Made' = Made /\ PendingOf(t)' = PendingOf(t)
      BY <1>1, PendingStays DEF Made
    <2>4. \A k : Bystander(t, k, c)' <=> Bystander(t, k, c)
      BY <1>1, <2>3 DEF Bystander, Alone, Merges
    <2>5. 1 \in DOMAIN queue
      BY <1>4 DEF Carried, TypeOK, FlushOK, IsQueue
    <2> DEFINE Again == 1 \in PendingOf(t) /\ c \in SetBy(queue[1].action) /\ queue[1].action # "create"
    <2>6. ASSUME queue[1].action = "create", 1 \in PendingOf(t) PROVE t \in Made
      <3>2. queue[1].key = t
        BY <2>5, <2>6 DEF PendingOf, SyncInv, QueueInv, MutationOK
      <3>1. queue[1].id \in DOMAIN server
        BY <2>6, <1>4, <3>2 DEF Carried, SyncInv, FlushInv, TypeOK, FlushOK
      <3> QED
        BY <2>6, <3>1, MadeIs DEF PendingOf
    <2>7. \A k : k \in Writes(t, c)' <=> k \in Writes(t, c) \/ (k = 1 /\ Again)
      BY <1>1, <1>2, <1>4, <2>3, <2>6 DEF Writes
    <2>8. L \subseteq Writes(t, c) /\ L \in SUBSET Nat /\ Writes(t, c) \in SUBSET Nat /\ Writes(t, c) \subseteq PendingOf(t)
          /\ PendingOf(t) \subseteq DOMAIN queue /\ DOMAIN queue \subseteq Nat \ {0}
      BY <2>1, LinksNat
    <2>9. IsChain(L, B, V, e) /\ \A i \in DOMAIN server : server[i].thing = t => Fits(L, B, V, e, server[i].vals[c])
      BY <2>1 DEF ChainOf
    <2>10. CASE ~ Again \/ Bystander(t, 1, c)
      <3>1. Links(t, c)' = L
        BY <2>1, <2>4, <2>7, <2>10 DEF Links
      <3> QED
        BY <1>1, <2>1, <2>2, <2>3, <2>9, <3>1 DEF ChainOf
    <2>11. CASE Again /\ ~ Bystander(t, 1, c)
      <3>1. 1 \notin L /\ Links(t, c)' = L \cup {1}
        <4>1. 1 \notin Writes(t, c)
          BY <1>4 DEF Writes
        <4> QED
          BY <2>1, <2>4, <2>7, <2>8, <2>11, <4>1 DEF Links
      <3>2. L = Writes(t, c)
        <4> SUFFICES ASSUME NEW k \in Writes(t, c) PROVE ~ Bystander(t, k, c)
          BY <2>1 DEF Links
        <4>1. 1 < k
          BY <1>4, <2>8 DEF Writes
        <4>2. ~ Alone(t, k)
          BY <2>11, <4>1 DEF Alone
        <4> QED
          BY <4>2 DEF Bystander
      <3>3. t = Thing(queue[1].id)
        BY <2>11 DEF PendingOf
      <3>4. /\ \A k \in L : FirstOf(L, k) => B[k] = V[1]
            /\ L = {} => \A i \in DOMAIN server : server[i].thing = t => server[i].vals[c] = V[1]
        <4>1. \A k \in DOMAIN queue : B[k] = queue[k].base[c] /\ V[k] = queue[k].vals[c]
          BY <2>1, LinksNat
        <4>2. /\ \A k \in L : (\A j \in L : k <= j) => queue[k].base[c] = queue[1].vals[c]
              /\ L = {} => \A i \in DOMAIN server : server[i].thing = t => server[i].vals[c] = queue[1].vals[c]
          BY <1>4, <2>11, <3>2, <3>3, CleanupPromises
        <4> QED
          BY <2>5, <2>8, <4>1, <4>2 DEF FirstOf
      <3>5. t \in Made
        <4> SUFFICES ASSUME t \notin Made PROVE FALSE
          OBVIOUS
        <4>1. queue[1].id < 0
          <5>1. queue[1].id \in DOMAIN server => t \in Made
            BY <3>3, MadeIs
          <5>2. IsId(queue[1].id)
            BY <2>5 DEF TypeOK, IsQueue
          <5> QED
            BY <5>1, <5>2, ThingIs DEF TypeOK
        <4>2. Refused(1)
          BY <1>4, <2>8, <2>11, <4>1 DEF Refused, Carried
        <4> QED
          BY <2>11, <4>2 DEF Doomed
      <3>6. L = {} => V[1] = e
        <4>1. PICK i \in DOMAIN server : server[i].thing = t
          BY <3>5 DEF Made
        <4> QED
          BY <2>9, <3>4, <4>1 DEF Fits
      <3>7. \A k \in L : 1 < k
        BY <2>8, <3>1
      <3>8. IsChain(L \cup {1}, B, V, e) /\ \A v : Fits(L, B, V, e, v) => Fits(L \cup {1}, B, V, e, v)
        BY <2>8, <2>9, <3>4, <3>6, <3>7, AddFirst
      <3> QED
        BY <1>1, <2>2, <2>3, <2>9, <3>1, <3>5, <3>8 DEF ChainOf
    <2> QED
      BY <2>10, <2>11
  <1> QED
    BY <1>3, <1>4, SMTT(30)

----------------------------------------
(* What is pending of a promised column is a chain in every state.         *)
LEMMA ChainsStep ==
  ASSUME TypeOK, TypeOK', SyncInv, CreationsInv, MadeOnce, mine \in Histories, OpMine, OpRow, TodoInv, Chains, [Next]_vars
  PROVE  Chains'
  <1> SUFFICES ASSUME NEW t \in Things, NEW c \in Columns, Promised(t, c)' PROVE ChainOf(t, c)'
    BY DEF Chains, Things
  <1>1. /\ t \notin doubled /\ t \notin undated /\ <<t, c>> \notin touched /\ ~ Doomed(t) /\ ~ Gone(t)
        /\ mine'[t][c] = mine[t][c] => Promised(t, c)
        /\ ~ (SendCreate \/ SendChange \/ _enqueue) => mine'[t][c] = mine[t][c]
    BY PromisedBefore
  <1>2. Later
    BY LaterStep
  <1>3. mine'[t][c] = mine[t][c] => ChainOf(t, c)
    BY <1>1 DEF Chains
  <1>4. mine'[t][c] # Null
    BY DEF Promised
  <1>5. CASE SendCreate
    BY <1>1, <1>2, <1>5, SendCreateChain
  <1>6. CASE SendChange
    BY <1>1, <1>2, <1>6, SendChangeChain
  <1>7. CASE _enqueue
    BY <1>1, <1>7, EnqueueChain
  <1>8. CASE ~ (SendCreate \/ SendChange \/ _enqueue)
    <2>1. ChainOf(t, c) /\ mine'[t][c] = mine[t][c]
      BY <1>1, <1>3, <1>8
    <2>2. CASE FlushCreate
      BY <1>1, <1>2, <2>1, <2>2, FlushCreateChain
    <2>3. CASE _retargetPendingMutations
      BY <1>1, <2>1, <2>3, RetargetChain
    <2>4. CASE DropLocal
      BY <1>2, <2>1, <2>4, DropLocalChain
    <2>5. CASE _applyWithConflictResolution
      BY <1>1, <1>2, <2>1, <2>5, ApplyChain
    <2>6. CASE _rebasePendingMutations
      BY <2>1, <2>6, RebaseChain
    <2>7. CASE _deleteMutation
      BY <2>1, <2>7, DeleteChain
    <2>8. CASE Others
      BY <1>2, <2>1, <2>8, OthersChain
    <2>9. CASE cleanupOrphanedItems
      BY <1>1, <1>2, <1>4, <2>1, <2>9, CleanupChain
    <2>10. CASE ~ Moving
      <3>1. UNCHANGED <<server, queue>> /\ (Carried' <=> Carried)
        BY <2>10, QuietStep
      <3> QED
        BY <1>2, <2>1, <3>1, QuietChain
    <2>11. CASE AnswerNotStored
      <3>1. PICK n, u, vals : Makes(n, u, vals) /\ u = queue[1].key /\ vals = queue[1].vals
        BY <2>11, NotStoredDoes
      <3>2. UNCHANGED queue /\ fl.at = "send" /\ FlushOff /\ doubled' = doubled \cup {u}
        BY <2>11, <3>1, NotStoredDoes
      <3>3. u # t
        BY <3>2 DEF Promised
      <3>4. Carried' <=> Carried
        BY <3>2 DEF Carried, FlushOff, NoFlush
      <3> QED
        BY <1>2, <2>1, <3>1, <3>2, <3>3, <3>4, OtherMadeChain
    <2>12. CASE RefuseCreate
      <3>1. UNCHANGED <<server, queue>> /\ ~ Carried /\ 1 \in DOMAIN queue /\ queue[1].key \in undated
        BY <2>12, RefuseDoes DEF Carried
      <3>2. 1 \notin Links(t, c)
        <4> SUFFICES ASSUME 1 \in PendingOf(t) PROVE FALSE
          BY LinksNat
        <4>1. queue[1].key = t
          BY <3>1 DEF PendingOf, SyncInv, QueueInv, MutationOK
        <4> QED
          BY <1>1, <3>1, <4>1
      <3> QED
        BY <1>2, <2>1, <3>1, <3>2, QuietChain
    <2> QED
      BY <1>8, <2>2, <2>3, <2>4, <2>5, <2>6, <2>7, <2>8, <2>9, <2>10, <2>11, <2>12 DEF Moving
  <1> QED
    BY <1>5, <1>6, <1>7, <1>8

(* Once nothing of an item is pending, its columns are what was promised.  *)
LEMMA ChainsKeepEdits ==
  ASSUME TypeOK, MadeOnce, UndatedInv, Chains
  PROVE  LastWriteWins
  <1> SUFFICES ASSUME NEW i \in DOMAIN server, NEW c \in Columns, NEW t, t = server[i].thing,
                      Settled(t), t \notin doubled, <<t, c>> \notin touched,
                      mine[t][c] # Null, server[i].vals["status"] # "gone"
               PROVE  server[i].vals[c] = mine[t][c]
    BY DEF LastWriteWins
  <1>1. t \in Things /\ t \in Made
    BY MadeIs
  <1>2. PendingOf(t) = {}
    BY DEF Settled, PendingOf
  <1>3. ~ Doomed(t)
    BY <1>2 DEF Doomed
  <1>4. ~ Gone(t) /\ t \notin undated
    BY <1>1 DEF Gone, MadeOnce, UndatedInv
  <1>5. ChainOf(t, c)
    BY <1>1, <1>3, <1>4 DEF Chains, Promised
  <1>6. Links(t, c) = {}
    BY <1>2, LinksNat
  <1> QED
    BY <1>5, <1>6 DEF ChainOf, Fits

LEMMA ChainsInit == Init => Chains
  <1> SUFFICES ASSUME Init, NEW t \in Things, NEW c \in Columns PROVE mine[t][c] = Null
    BY DEF Chains, Promised
  <1> QED
    BY DEF Init, Nothing

----------------------------------------
(* What the app knows it goes on knowing.                                  *)
LEMMA KnowsQueued ==
  ASSUME TypeOK, NEW i \in DOMAIN server, NEW c, NEW v
  PROVE  Knows(i, c, v) <=> v = server[i].vals[c] \/ \E n : HasQueued(n, i, c, v)
  <1>1. server[i].thing \in Made /\ Thing(i) = server[i].thing
    BY MadeIs
  <1>2. ASSUME NEW n, n \in Writes(server[i].thing, c), queue[n].id = i, queue[n].vals[c] = v,
               c \in queue[n].dirty \/ queue[n].version = server[i].version
        PROVE  HasQueued(n, i, c, v)
    BY <1>1, <1>2 DEF HasQueued, Writes, PendingOf
  <1>3. ASSUME NEW n, HasQueued(n, i, c, v)
        PROVE  /\ n \in Writes(server[i].thing, c) /\ queue[n].id = i /\ queue[n].vals[c] = v
               /\ c \in queue[n].dirty \/ queue[n].version = server[i].version
    BY <1>1, <1>3 DEF HasQueued, Writes, PendingOf
  <1> QED
    BY <1>2, <1>3 DEF Knows

LEMMA QueuedStays ==
  ASSUME TypeOK, TypeOK', SyncInv, MadeOnce, TodoInv, [Next]_vars, NEW i \in DOMAIN server, server'[i] = server[i],
         NEW c \in Columns, NEW v, NEW k, HasQueued(k, i, c, v), ~ Excused(i, c)
  PROVE  \E n : HasQueued(n, i, c, v)'
  <1> DEFINE t == server[i].thing
  <1>1. /\ k \in DOMAIN queue /\ queue[k].id = i /\ c \in SetBy(queue[k].action) /\ queue[k].action # "create"
        /\ queue[k].vals[c] = v /\ (c \in queue[k].dirty \/ queue[k].version = server[i].version) /\ (Carried => k # 1)
        /\ k \in Nat \ {0} /\ queue[k].version \in Nat
    BY LinksNat DEF HasQueued, Mutations
  <1>2. ASSUME queue' = queue, Carried' => Carried \/ k # 1 PROVE HasQueued(k, i, c, v)'
    BY <1>1, <1>2 DEF HasQueued
  <1>3. CASE ~ Moving
    BY <1>2, <1>3, QuietStep
  <1>4. CASE SendCreate \/ SendChange \/ Others
    <2>1. UNCHANGED <<queue, fl>>
      BY <1>4, SendCreateDoes, SendChangeDoes, OthersDo
    <2> QED
      BY <1>2, <2>1 DEF Carried
  <1>5. CASE FlushCreate \/ AnswerNotStored \/ RefuseCreate
    <2>1. queue' = queue /\ queue[1].action = "create"
      BY <1>5, FlushCreateDoes, NotStoredDoes, RefuseDoes
    <2> QED
      BY <1>1, <1>2, <2>1
  <1>6. CASE cleanupOrphanedItems
    <2>1. queue' = queue /\ ~ Carried'
      BY <1>6 DEF cleanupOrphanedItems, NoFlush, Carried
    <2> QED
      BY <1>2, <2>1
  <1>7. CASE DropLocal
    <2>1. queue' = queue /\ queue[1].action = "create"
      BY <1>7 DEF DropLocal, SyncInv, FlushInv
    <2> QED
      BY <1>1, <1>2, <2>1
  <1>8. CASE _applyWithConflictResolution
    <2>1. queue' = queue
      BY <1>8, ApplyDoes
    <2>2. ASSUME k = 1, Carried' PROVE FALSE
      <3>1. i \in DOMAIN server /\ ~ (i < 0) /\ server[i].vals["status"] # "gone"
        BY MadeIs DEF Excused
      <3>2. ~ \E set, vals : Alters(i, set, vals)
        <4> SUFFICES ASSUME NEW set, NEW vals, Alters(i, set, vals) PROVE FALSE
          OBVIOUS
        <4>1. server'[i].version = server[i].version + 1 /\ server[i].version \in Nat
          BY ServerItem DEF Alters, TypeOK
        <4> QED
          BY <4>1
      <3>3. FlushOff \/ NextFlush("fetch")
        BY <1>1, <1>8, <2>2, <3>1, <3>2, ApplyDoes
      <3>4. fl'.at \in {"off", "send", "fetch"}
        BY <3>3 DEF FlushOff, NoFlush, NextFlush, TypeOK, FlushOK
      <3> QED
        BY <2>2, <3>4 DEF Carried
    <2> QED
      BY <1>2, <2>1, <2>2
  <1>9. CASE _retargetPendingMutations
    <2>1. PICK j \in fl.todo :
              /\ j \in DOMAIN queue
              /\ \A l \in DOMAIN queue : l # j => queue'[l] = queue[l]
              /\ Readdressed(queue[j], queue'[j], fl.got,
                             IF queue[j].action = "create" THEN queue[j].version ELSE fl.row.version)
              /\ fl'.at \in {"retarget", "drop"}
      BY <1>9, RetargetDoes
    <2>2. fl.at = "retarget" /\ DOMAIN queue' = DOMAIN queue
      BY <1>9, RetargetDoes
    <2>3. ~ Carried'
      BY <2>1 DEF Carried
    <2>4. CASE k # j
      <3>1. queue'[k] = queue[k] /\ k \in DOMAIN queue'
        BY <1>1, <2>1, <2>2, <2>4
      <3> QED
        BY <1>1, <2>3, <3>1 DEF HasQueued
    <2>5. CASE k = j
      <3>1. fl.got \in DOMAIN server /\ Thing(fl.from) = server[fl.got].thing /\ fl.from = i /\ fl.row.version = 1
        BY <1>1, <2>1, <2>2, <2>5 DEF TypeOK, FlushOK, SyncInv, FlushInv
      <3>2. server[fl.got].thing = server[i].thing
        BY <3>1, MadeIs
      <3>3. fl.got = i
        BY <3>1, <3>2 DEF MadeOnce, Excused
      <3>4. ASSUME c \notin queue[k].dirty PROVE queue[k].version = 1
        <4> SUFFICES ASSUME queue[k].version # 1 PROVE FALSE
          OBVIOUS
        <4>1. c \in Fields /\ queue[k].action = "update"
          BY <1>1, <3>4, IdleBase DEF SyncInv
        <4>2. c \in SetBack(k)
          BY <3>4, <4>1 DEF SetBack
        <4>3. <<server[i].thing, c>> \in touched
          BY <2>1, <2>2, <2>5, <3>3, <4>2 DEF TodoInv
        <4> QED
          BY <4>3 DEF Excused
      <3>5. /\ queue'[k].id = i /\ queue'[k].version = 1 /\ queue'[k].action = queue[k].action
            /\ queue'[k].vals = queue[k].vals /\ queue'[k].dirty = queue[k].dirty /\ k \in DOMAIN queue'
        BY <1>1, <2>1, <2>2, <2>5, <3>1, <3>3 DEF Readdressed
      <3> QED
        BY <1>1, <2>3, <3>4, <3>5 DEF HasQueued
    <2> QED
      BY <2>4, <2>5
  <1>10. CASE _rebasePendingMutations
    <2>1. PICK j \in fl.todo :
              /\ j \in DOMAIN queue
              /\ \A l \in DOMAIN queue : l # j => queue'[l] = queue[l]
              /\ Readdressed(queue[j], queue'[j], queue[j].id, fl.row.version)
              /\ fl'.at \in {"rebase", "put"}
      BY <1>10, RebaseDoes
    <2>2. fl.at = "rebase" /\ DOMAIN queue' = DOMAIN queue
      BY <1>10, RebaseDoes
    <2>3. Carried /\ Carried'
      BY <2>1, <2>2 DEF Carried
    <2>4. CASE k # j
      <3>1. queue'[k] = queue[k] /\ k \in DOMAIN queue'
        BY <1>1, <2>1, <2>2, <2>4
      <3> QED
        BY <1>1, <2>3, <3>1 DEF HasQueued
    <2>5. CASE k = j
      <3>1. queue[k].id = fl.got /\ Honest(fl.got, fl.row) /\ queue[k].version < fl.row.version
        BY <2>1, <2>2, <2>5 DEF SyncInv, FlushInv, TodoInv
      <3>2. fl.row.version \in Nat /\ server[i].version \in Nat /\ fl.row.version <= server[i].version
        BY <1>1, <3>1, ServerItem DEF Honest, TypeOK
      <3>3. queue[k].version # server[i].version
        BY <1>1, <3>1, <3>2
      <3>4. /\ queue'[k].id = i /\ queue'[k].action = queue[k].action
            /\ queue'[k].vals = queue[k].vals /\ queue'[k].dirty = queue[k].dirty /\ k \in DOMAIN queue'
        BY <1>1, <2>1, <2>2, <2>5 DEF Readdressed
      <3> QED
        BY <1>1, <2>3, <3>3, <3>4 DEF HasQueued
    <2> QED
      BY <2>4, <2>5
  <1>11. CASE _deleteMutation
    <2>1. k # 1 /\ ~ Carried'
      BY <1>1, <1>11, DeleteDoes DEF Carried, NoFlush
    <2>2. k - 1 \in DOMAIN queue' /\ queue'[k - 1] = queue[k]
      BY <1>1, <1>11, <2>1, DeleteDoes
    <2>3. PICK n : n = k - 1
      OBVIOUS
    <2>4. HasQueued(n, i, c, v)'
      BY <1>1, <2>1, <2>2, <2>3 DEF HasQueued
    <2> QED
      BY <2>4
  <1>12. CASE _enqueue
    <2>1. UNCHANGED fl /\ queue'[k] = queue[k] /\ k \in DOMAIN queue'
      BY <1>1, <1>12, EnqueueDoes
    <2>2. HasQueued(k, i, c, v)'
      BY <1>1, <2>1 DEF HasQueued, Carried
    <2> QED
      BY <2>2
  <1> QED
    BY <1>3, <1>4, <1>5, <1>6, <1>7, <1>8, <1>9, <1>10, <1>11, <1>12 DEF Moving

LEMMA KnowsStays ==
  ASSUME TypeOK, TypeOK', SyncInv, MadeOnce, TodoInv, mine \in Histories, [Next]_vars,
         NEW i \in DOMAIN server, i \in DOMAIN server', server'[i] = server[i], NEW c \in Columns, NEW v,
         Knows(i, c, v) \/ Excused(i, c)
  PROVE  Knows(i, c, v)' \/ Excused(i, c)'
  <1>1. Excused(i, c) => Excused(i, c)'
    BY MineShrinks DEF Excused
  <1>2. CASE ~ Excused(i, c) /\ Knows(i, c, v)
    <2>1. CASE v = server[i].vals[c]
      BY <2>1 DEF Knows
    <2>2. CASE \E k : HasQueued(k, i, c, v)
      <3>1. PICK n : HasQueued(n, i, c, v)'
        BY <1>2, <2>2, QueuedStays
      <3>2. /\ n \in DOMAIN queue' /\ queue'[n].id = i /\ c \in SetBy(queue'[n].action) /\ queue'[n].action # "create"
            /\ queue'[n].vals[c] = v /\ (c \in queue'[n].dirty \/ queue'[n].version = server'[i].version) /\ (Carried' => n # 1)
        BY <3>1 DEF HasQueued
      <3>3. ~ (i < 0)
        BY MadeIs
      <3>4. Thing(queue[n].id)' = server'[i].thing
        BY <3>2, <3>3 DEF Thing
      <3>5. PICK t : t = server'[i].thing
        OBVIOUS
      <3>6. n \in PendingOf(t)'
        BY <3>2, <3>4, <3>5 DEF PendingOf
      <3>7. n \in Writes(t, c)'
        BY <3>2, <3>6 DEF Writes
      <3>8. Writes(server[i].thing, c)' = Writes(t, c)'
        BY <3>5 DEF Writes, PendingOf
      <3> QED
        BY <3>2, <3>7, <3>8 DEF Knows
    <2> QED
      BY <1>2, <2>1, <2>2, KnowsQueued
  <1> QED
    BY <1>1, <1>2

----------------------------------------
(* Until a call returns nothing is promised of what it changes.            *)
LEMMA OpMineStep ==
  ASSUME TypeOK, TypeOK', SyncInv, mine \in Histories, OpMine, [Next]_vars
  PROVE  OpMine'
  <1>1. CASE createInventoryItem \/ updateItem \/ updateItemStatus
    <2>1. PICK t, columns : /\ t = (IF op'.action = "create" THEN ops + 1 ELSE Thing(op'.id)) /\ columns = op'.dirty
                            /\ mine' = Forget(mine, t, columns) /\ columns \subseteq Columns
      BY <1>1, BeginDoes
    <2>2. t \in Things /\ Thing(op.id)' = t
      BY <1>1, <2>1, BeginThing
    <2> HIDE <1>1
    <2>3. \A c \in columns : mine'[t][c] = Null
      BY <2>1, <2>2, ForgetIs
    <2> QED
      BY <2>1, <2>2, <2>3 DEF OpMine
  <1>2. ASSUME Calling' => Calling /\ op'.id = op.id /\ op'.dirty = op.dirty,
               \A t \in Things, c \in Columns : mine[t][c] = Null => mine'[t][c] = Null
        PROVE  OpMine'
    <2> SUFFICES ASSUME Calling', NEW c \in op'.dirty PROVE mine'[Thing(op.id)'][c] = Null
      BY DEF OpMine
    <2>1. Calling /\ IsId(op.id) /\ op'.id = op.id /\ op'.dirty = op.dirty /\ op.dirty \subseteq Columns
      BY <1>2 DEF Calling, TypeOK, OpOK
    <2>2. PICK i : i = op.id
      OBVIOUS
    <2>3. Thing(i)' = Thing(i) /\ Thing(i) \in Things
      BY <2>1, <2>2, LaterStep, PendingStays, ThingIsOne DEF TypeOK
    <2>4. Thing(op.id)' = Thing(i)'
      BY <2>1, <2>2 DEF Thing
    <2>5. mine[Thing(i)][c] = Null
      BY <2>1, <2>2 DEF OpMine
    <2> QED
      BY <1>2, <2>1, <2>3, <2>4, <2>5
  <1>3. ~ (SendCreate \/ SendChange \/ _enqueue) =>
           \A t \in Things, c \in Columns : mine[t][c] = Null => mine'[t][c] = Null
    BY MineShrinks
  <1>4. CASE SendCreate
    <2>1. CASE Calling'
      <3>1. mine' = mine /\ NextOp("keep")
        <4>1. ASSUME NEW n, NEW row, op' = [op EXCEPT !.at = "cache", !.id = n, !.row = row] PROVE FALSE
          <5>1. op'.at = "cache"
            BY <4>1 DEF TypeOK, OpOK
          <5> QED
            BY <2>1, <5>1 DEF Calling
        <4> QED
          BY <1>4, <4>1, SendCreateDoes
      <3>2. op'.id = op.id /\ op'.dirty = op.dirty /\ Calling
        BY <1>4, <3>1, SendCreateDoes DEF NextOp, TypeOK, OpOK, Calling
      <3> QED
        BY <1>2, <3>1, <3>2
    <2> QED
      BY <2>1 DEF OpMine
  <1>5. CASE SendChange
    <2>1. CASE Calling'
      <3>1. mine' = mine /\ (NextOp("keep") \/ NextOp("queue"))
        <4>1. ASSUME NEW row, op' = [op EXCEPT !.at = "cache", !.row = row] PROVE FALSE
          <5>1. op'.at = "cache"
            BY <4>1 DEF TypeOK, OpOK
          <5> QED
            BY <2>1, <5>1 DEF Calling
        <4>2. NextOp("revert") => op'.at = "revert"
          BY DEF NextOp, TypeOK, OpOK
        <4>3. op' = NoOp => op'.at = "idle"
          BY DEF NoOp
        <4> QED
          BY <1>5, <2>1, <4>1, <4>2, <4>3, SendChangeDoes DEF Calling
      <3>2. op'.id = op.id /\ op'.dirty = op.dirty /\ Calling
        BY <1>5, <3>1, SendChangeDoes DEF NextOp, TypeOK, OpOK, Calling
      <3> QED
        BY <1>2, <3>1, <3>2
    <2> QED
      BY <2>1 DEF OpMine
  <1>6. CASE _cacheItems \/ RevertStatus \/ _enqueue \/ cleanupOrphanedItems
    <2>1. op' = NoOp
      BY <1>6 DEF _cacheItems, RevertStatus, _enqueue, cleanupOrphanedItems
    <2> QED
      BY <2>1 DEF OpMine, Calling, NoOp
  <1>7. CASE KeepLocally
    <2>1. CASE op' = NoOp
      BY <2>1 DEF OpMine, Calling, NoOp
    <2>2. CASE op' # NoOp
      <3>1. PICK t, columns : /\ t = Thing(op.id) /\ columns = op'.dirty /\ mine' = Forget(mine, t, columns)
                              /\ op'.id = op.id /\ IsId(op.id) /\ UNCHANGED server
        BY <1>7, <2>2, KeepDoes
      <3>2. t \in Things /\ Thing(op.id)' = t /\ columns \subseteq Columns
        BY <3>1, ThingIsOne DEF Thing, TypeOK, OpOK
      <3> HIDE <1>7
      <3>3. \A c \in columns : mine'[t][c] = Null
        BY <3>1, <3>2, ForgetIs
      <3> QED
        BY <3>1, <3>2, <3>3 DEF OpMine
    <2> QED
      BY <2>1, <2>2
  <1>8. CASE flushPendingMutations \/ FlushStep \/ SyncStep \/ Others \/ Connect \/ Disconnect \/ UNCHANGED vars
    <2>1. (op' = op /\ ~ (SendCreate \/ SendChange \/ _enqueue)) \/ SendCreate \/ SendChange \/ _enqueue
      <3>1. op' = op
        BY <1>8, OthersDo DEF flushPendingMutations, FlushStep, FlushedAll, FlushCreate, _retargetPendingMutations,
           DropLocal, _applyWithConflictResolution, AnswerNotStored, RefuseCreate, _fetchServerItem,
           _rebasePendingMutations, PutSynced, _deleteMutation, SyncStep, syncInventoryItems, SeePending, GetItems,
           clearAll, _replaceCache, Connect, Disconnect, vars
      <3> QED
        BY <3>1, SMTT(30)
    <2> QED
      BY <1>2, <1>3, <1>4, <1>5, <1>6, <2>1 DEF Calling
  <1> QED
    BY <1>1, <1>4, <1>5, <1>6, <1>7, <1>8 DEF Next, OpStep

(* What the flush has still to do behind the head of the queue.            *)
LEMMA TodoInvStep ==
  ASSUME TypeOK, TypeOK', SyncInv, mine \in Histories, TodoInv, [Next]_vars
  PROVE  TodoInv'
  <1>1. Later /\ touched \subseteq touched'
    BY LaterStep, MineShrinks
  <1>2. ASSUME fl' = fl, answers' = answers, \A k \in DOMAIN queue : k \in DOMAIN queue' /\ queue'[k] = queue[k]
        PROVE  TodoInv'
    <2>1. fl.at # "off" => fl.todo \subseteq DOMAIN queue
      BY DEF TypeOK, FlushOK
    <2>2. ASSUME fl.at = "retarget"
          PROVE  /\ \A k \in fl.todo : \A c \in SetBack(k)' : <<server'[fl.got].thing, c>> \in touched'
                 /\ server'[fl.got].thing \in DOMAIN answers /\ answers[server'[fl.got].thing].id = fl.got
      <3>1. fl.got \in DOMAIN server /\ server'[fl.got].thing = server[fl.got].thing
        BY <1>1, <2>2 DEF TypeOK, FlushOK, Later
      <3>2. \A k \in fl.todo : SetBack(k)' = SetBack(k)
        BY <1>2, <2>1, <2>2 DEF SetBack
      <3> QED
        BY <1>1, <2>2, <3>1, <3>2 DEF TodoInv
    <2>3. fl.at = "rebase" => \A k \in fl.todo : queue'[k].version < fl.row.version
      BY <1>2, <2>1 DEF TodoInv
    <2> QED
      BY <1>2, <2>2, <2>3 DEF TodoInv
  <1>3. CASE ~ Moving
    <2>1. UNCHANGED <<queue, answers>> /\ (fl' = fl \/ fl'.at \notin {"retarget", "rebase"})
      BY <1>3, QuietStep
    <2> QED
      BY <1>2, <2>1 DEF TodoInv
  <1>4. CASE SendCreate \/ SendChange \/ Others \/ _enqueue
    BY <1>2, <1>4, SendCreateDoes, SendChangeDoes, OthersDo, EnqueueDoes
  <1>5. CASE DropLocal \/ cleanupOrphanedItems \/ _deleteMutation \/ AnswerNotStored \/ RefuseCreate
    <2>1. fl'.at \in {"put", "off", "send", "pop"}
      BY <1>5, DeleteDoes, NotStoredDoes, RefuseDoes
         DEF DropLocal, cleanupOrphanedItems, NextFlush, NoFlush, FlushOff, TypeOK, FlushOK
    <2> QED
      BY <2>1 DEF TodoInv
  <1>6. CASE FlushCreate
    <2>1. PICK m, todo : m = queue[1] /\ todo = {k \in DOMAIN queue : queue[k].id = m.id}
      OBVIOUS
    <2>2. CASE FlushOff
      BY <2>2 DEF FlushOff, NoFlush, TodoInv
    <2>3. CASE ~ FlushOff
      <3>1. PICK id, row :
               /\ answers' = With(answers, m.key, [id |-> id, row |-> row])
               /\ \/ /\ m.key \in DOMAIN answers /\ server' = server
                     /\ id = answers[m.key].id /\ row = answers[m.key].row
                  \/ /\ m.key \notin DOMAIN answers /\ Makes(id, m.key, m.vals)
                     /\ row = Row(Created(m.key, m.vals).vals, 1)
               /\ fl' = [at |-> "retarget", from |-> m.id, got |-> id, row |-> row, todo |-> todo]
               /\ touched' = touched \cup {<<m.key, c>> : c \in UNION {SetBack(k) : k \in todo}}
        BY <1>6, <2>1, <2>3, FlushCreateDoes
      <3>2. queue' = queue
        BY <1>6, FlushCreateDoes
      <3>3. server'[id].thing = m.key
        BY <3>1 DEF SyncInv, AnswersInv, Makes, Created
      <3>4. m.key \in DOMAIN answers' /\ answers'[m.key].id = id
        BY <3>1 DEF With
      <3>5. fl'.at = "retarget" /\ fl'.got = id /\ fl'.todo = todo
        BY <3>1
      <3>6. \A k \in todo : \A c \in SetBack(k)' : <<m.key, c>> \in touched'
        BY <3>1, <3>2 DEF SetBack
      <3> QED
        BY <3>3, <3>4, <3>5, <3>6 DEF TodoInv
    <2> QED
      BY <2>2, <2>3
  <1>7. CASE _retargetPendingMutations
    <2>1. fl.at = "retarget" /\ UNCHANGED <<server, answers, history>> /\ DOMAIN queue' = DOMAIN queue
      BY <1>7, RetargetDoes
    <2>2. PICK k \in fl.todo :
              /\ \A j \in DOMAIN queue : j # k => queue'[j] = queue[j]
              /\ fl'.at \in {"retarget", "drop"} /\ fl'.got = fl.got /\ fl'.todo = fl.todo \ {k}
      BY <1>7, RetargetDoes
    <2>3. fl.todo \subseteq DOMAIN queue
      BY <2>1 DEF TypeOK, FlushOK
    <2>4. \A j \in fl'.todo : j \in fl.todo /\ SetBack(j)' = SetBack(j)
      BY <2>2, <2>3 DEF SetBack
    <2> QED
      BY <2>1, <2>2, <2>4 DEF TodoInv, history
  <1>8. CASE _rebasePendingMutations
    <2>1. fl.at = "rebase"
      BY <1>8, RebaseDoes
    <2>2. PICK k \in fl.todo :
              /\ \A j \in DOMAIN queue : j # k => queue'[j] = queue[j]
              /\ fl'.at \in {"rebase", "put"} /\ fl'.row = fl.row /\ fl'.todo = fl.todo \ {k}
      BY <1>8, RebaseDoes
    <2>3. fl.todo \subseteq DOMAIN queue
      BY <2>1 DEF TypeOK, FlushOK
    <2> QED
      BY <2>1, <2>2, <2>3 DEF TodoInv
  <1>9. CASE _applyWithConflictResolution
    <2>1. PICK m, todo : m = queue[1] /\ todo = {k \in DOMAIN queue : queue[k].id = m.id /\ queue[k].action # "create"}
      OBVIOUS
    <2>2. ASSUME NEW vals, Alters(m.id, SetOf(m.action), vals),
                 fl' = [at |-> "rebase", from |-> m.id, got |-> m.id,
                        row |-> Row(server'[m.id].vals, server'[m.id].version), todo |-> todo]
          PROVE  TodoInv'
      <3>1. fl'.at = "rebase" /\ fl'.todo = todo /\ fl'.row.version = server'[m.id].version
        BY <2>2 DEF Row
      <3>2. m.id \in DOMAIN server /\ server'[m.id].version = server[m.id].version + 1 /\ server[m.id].version \in Nat
        BY <2>2, ServerItem DEF Alters, TypeOK
      <3>3. \A k \in todo : queue[k].version \in 1..server[m.id].version
        BY <2>1, <3>2 DEF SyncInv, QueueInv, MutationOK, NotAhead
      <3>4. queue' = queue
        BY <1>9, ApplyDoes
      <3>5. \A k \in todo : queue'[k].version < fl'.row.version
        BY <3>1, <3>2, <3>3, <3>4
      <3> QED
        BY <3>1, <3>5 DEF TodoInv
    <2>3. FlushOff \/ NextFlush("fetch") \/ NextFlush("pop") => fl'.at \in {"off", "send", "fetch", "pop"}
      BY DEF FlushOff, NoFlush, NextFlush, TypeOK, FlushOK
    <2>4. FlushOff \/ NextFlush("fetch") \/ NextFlush("pop")
          \/ \E vals : /\ Alters(m.id, SetOf(m.action), vals)
                       /\ fl' = [at |-> "rebase", from |-> m.id, got |-> m.id,
                                 row |-> Row(server'[m.id].vals, server'[m.id].version), todo |-> todo]
      BY <1>9, <2>1, ApplyDoes
    <2> QED
      BY <2>2, <2>3, <2>4 DEF TodoInv
  <1> QED
    BY <1>3, <1>4, <1>5, <1>6, <1>7, <1>8, <1>9 DEF Moving

----------------------------------------
(* What a creation has sent.                                               *)
LEMMA CreationIs ==
  ASSUME TypeOK, NEW m \in Creations
  PROVE  m \in Mutations /\ IsId(m.id) /\ m.key \in 0..ops
  <1>1. \A k \in DOMAIN queue : queue[k] \in Mutations /\ IsId(queue[k].id)
    BY LinksNat
  <1>2. \A k \in DOMAIN sy.remaining : sy.remaining[k] \in Mutations /\ IsId(sy.remaining[k].id)
    BY Indices DEF TypeOK, SyncOK, IsQueue
  <1> QED
    BY <1>1, <1>2 DEF Creations, Mutations

LEMMA CreationOf ==
  ASSUME NEW k \in DOMAIN queue, queue[k].action = "create"
  PROVE  queue[k] \in Creations
  BY DEF Creations

LEMMA SameCreations ==
  ASSUME \A k \in DOMAIN queue' : queue'[k].action = "create" => \E j \in DOMAIN queue : queue[j] = queue'[k],
         sy'.remaining \in {sy.remaining, queue, <<>>}
  PROVE  \A m \in Creations' : m \in Creations
  <1> SUFFICES ASSUME NEW m \in Creations' PROVE m \in Creations
    OBVIOUS
  <1>1. CASE \E k \in DOMAIN queue' : queue'[k] = m
    BY <1>1 DEF Creations
  <1>2. CASE \E k \in DOMAIN sy'.remaining : sy'.remaining[k] = m
    BY <1>2 DEF Creations
  <1> QED
    BY <1>1, <1>2 DEF Creations

(* A step after which there is no creation that was not there before.      *)
LEMMA MadeFromKept ==
  ASSUME MadeFrom, answers' = answers, CallKept, \A m \in Creations' : m \in Creations
  PROVE  MadeFrom'
  <1>1. \A m \in Creations' :
         /\ m.key \in DOMAIN answers => m.vals = answers[m.key].row.vals
         /\ ~ (m.id < 0) => m.key \in DOMAIN answers /\ m.id = answers[m.key].id
         /\ Creating' => m.key # - op'.id
    BY DEF MadeFrom, CallKept
  <1>2. \A m, n \in Creations' : m.key = n.key => m.vals = n.vals
    BY DEF MadeFrom
  <1>3. Creating' => - op'.id \notin DOMAIN answers
    BY DEF MadeFrom, CallKept
  <1> QED
    BY <1>1, <1>2, <1>3 DEF MadeFrom

LEMMA MadeFromCreate ==
  ASSUME TypeOK, SyncInv, MadeFrom, createInventoryItem
  PROVE  MadeFrom'
  <1>1. UNCHANGED <<queue, sy, answers>> /\ op'.action = "create" /\ op'.id = - (ops + 1) /\ ops \in Nat
    <2>1. op'.action = "create"
      BY DEF createInventoryItem, Begin
    <2> QED
      BY <2>1, BeginDoes, OfflineSyncAssumption DEF TypeOK, ServerOK
  <1>2. - op'.id = ops + 1
    BY <1>1
  <1>3. \A m \in Creations : m.key # ops + 1
    BY <1>1, CreationIs
  <1>4. ops + 1 \notin DOMAIN answers
    <2> SUFFICES ASSUME ops + 1 \in DOMAIN answers PROVE FALSE
      OBVIOUS
    <2>1. PICK i \in DOMAIN server : server[i].thing = ops + 1
      BY DEF TypeOK, AnswersOK, SyncInv, AnswersInv
    <2>2. server[i] \in Items
      BY <2>1, Indices DEF TypeOK, ServerOK, Items
    <2> QED
      BY <1>1, <2>1, <2>2 DEF Items
  <1>5. Creations' = Creations
    BY <1>1 DEF Creations
  <1>6. \A m \in Creations' :
         /\ m.key \in DOMAIN answers => m.vals = answers[m.key].row.vals
         /\ ~ (m.id < 0) => m.key \in DOMAIN answers /\ m.id = answers[m.key].id
         /\ m.key # - op'.id
    BY <1>2, <1>3, <1>5 DEF MadeFrom
  <1>7. \A m, n \in Creations' : m.key = n.key => m.vals = n.vals
    BY <1>5 DEF MadeFrom
  <1> QED
    BY <1>1, <1>2, <1>4, <1>6, <1>7 DEF MadeFrom

LEMMA MadeFromEnqueue ==
  ASSUME TypeOK, SyncInv, MadeFrom, _enqueue
  PROVE  MadeFrom'
  <1>1. PICK n, m : n = Len(queue) + 1 /\ m = queue'[n]
    OBVIOUS
  <1>2. /\ DOMAIN queue' = DOMAIN queue \cup {n} /\ \A k \in DOMAIN queue : queue'[k] = queue[k]
        /\ UNCHANGED <<answers, sy>> /\ op' = NoOp /\ op.at = "queue"
        /\ m.action = op.action /\ m.id = op.id /\ m.key = Thing(op.id)
    BY <1>1, EnqueueDoes
  <1>3. ~ Creating'
    BY <1>2 DEF Creating, NoOp
  <1>4. \A x \in Creations' : x \in Creations \/ (x = m /\ m.action = "create")
    BY <1>1, <1>2 DEF Creations
  <1>5. m.action = "create" => Creating /\ m.key = - op.id /\ m.id < 0
    <2> SUFFICES ASSUME m.action = "create" PROVE m.key = - op.id /\ op.id < 0 /\ Creating
      BY <1>2
    <2>1. - op.id \in 1..ops /\ op.id \in Int /\ ops \in Nat
      BY <1>2, OfflineSyncAssumption DEF TypeOK, OpOK, ServerOK
    <2>2. op.id < 0
      BY <2>1
    <2> QED
      BY <1>2, <2>2 DEF Thing, Creating
  <1>6. \A x \in Creations' :
         /\ x.key \in DOMAIN answers => x.vals = answers[x.key].row.vals
         /\ ~ (x.id < 0) => x.key \in DOMAIN answers /\ x.id = answers[x.key].id
    BY <1>4, <1>5 DEF MadeFrom
  <1>7. \A x, y \in Creations' : x.key = y.key => x.vals = y.vals
    BY <1>4, <1>5 DEF MadeFrom
  <1> QED
    BY <1>2, <1>3, <1>6, <1>7 DEF MadeFrom

LEMMA MadeFromFlush ==
  ASSUME TypeOK, SyncInv, MadeFrom, FlushCreate
  PROVE  MadeFrom'
  <1>1. PICK m : m = queue[1]
    OBVIOUS
  <1>2. /\ UNCHANGED <<queue, op, sy>> /\ 1 \in DOMAIN queue /\ m.action = "create" /\ m \in Mutations /\ m \in Creations
    BY <1>1, FlushCreateDoes, CreationOf
  <1>3. Creations' = Creations /\ CallKept /\ (Creating' <=> Creating)
    BY <1>2 DEF Creations, CallKept, Creating
  <1>4. CASE answers' = answers
    BY <1>3, <1>4, MadeFromKept
  <1>5. CASE answers' # answers
    <2>1. PICK id, row :
             /\ answers' = With(answers, m.key, [id |-> id, row |-> row])
             /\ \/ /\ m.key \in DOMAIN answers
                   /\ id = answers[m.key].id /\ row = answers[m.key].row
                \/ /\ m.key \notin DOMAIN answers
                   /\ row = Row(Created(m.key, m.vals).vals, 1)
      BY <1>1, <1>5, FlushCreateDoes
    <2>2. /\ DOMAIN answers' = DOMAIN answers \cup {m.key}
          /\ \A t \in DOMAIN answers : t # m.key => answers'[t] = answers[t]
          /\ answers'[m.key].id = id /\ answers'[m.key].row = row
      BY <2>1 DEF With
    <2>3. row.vals = m.vals
      <3>1. CASE m.key \in DOMAIN answers
        BY <1>2, <2>1, <3>1 DEF MadeFrom
      <3>2. CASE m.key \notin DOMAIN answers
        <4>1. m.vals["status"] = "active" /\ m.vals \in AllVals
          BY <1>1, <1>2 DEF SyncInv, QueueInv, MutationOK, Mutations
        <4>2. [m.vals EXCEPT !["status"] = "active"] = m.vals
          BY <4>1 DEF AllVals
        <4>3. Created(m.key, m.vals).vals = [m.vals EXCEPT !["status"] = "active"]
          BY DEF Created
        <4> QED
          BY <2>1, <3>2, <4>2, <4>3 DEF Row
      <3> QED
        BY <3>1, <3>2
    <2>4. \A x \in Creations :
           /\ x.key \in DOMAIN answers' => x.vals = answers'[x.key].row.vals
           /\ ~ (x.id < 0) => x.key \in DOMAIN answers' /\ x.id = answers'[x.key].id
           /\ Creating => x.key # - op.id
      <3> TAKE x \in Creations
      <3>1. CASE x.key = m.key
        <4>1. x.vals = m.vals
          BY <1>2, <3>1 DEF MadeFrom
        <4>2. ~ (x.id < 0) => m.key \in DOMAIN answers /\ x.id = answers[m.key].id
          BY <3>1 DEF MadeFrom
        <4> QED
          BY <2>1, <2>2, <2>3, <3>1, <4>1, <4>2 DEF MadeFrom
      <3>2. CASE x.key # m.key
        BY <2>2, <3>2 DEF MadeFrom
      <3> QED
        BY <3>1, <3>2
    <2>5. Creating => - op.id \notin DOMAIN answers'
      BY <1>2, <2>2 DEF MadeFrom
    <2>6. \A x, y \in Creations : x.key = y.key => x.vals = y.vals
      BY DEF MadeFrom
    <2> QED
      BY <1>2, <1>3, <2>4, <2>5, <2>6 DEF MadeFrom
  <1> QED
    BY <1>4, <1>5

LEMMA MadeFromRetarget ==
  ASSUME TypeOK, SyncInv, TodoInv, MadeFrom, _retargetPendingMutations
  PROVE  MadeFrom'
  <1>1. fl.at = "retarget" /\ UNCHANGED <<server, answers, op, sy>> /\ DOMAIN queue' = DOMAIN queue
    BY RetargetDoes
  <1>2. PICK k \in fl.todo :
              /\ k \in DOMAIN queue
              /\ \A j \in DOMAIN queue : j # k => queue'[j] = queue[j]
              /\ Readdressed(queue[k], queue'[k], fl.got,
                             IF queue[k].action = "create" THEN queue[k].version ELSE fl.row.version)
    BY RetargetDoes
  <1>3. PICK m, o : m = queue'[k] /\ o = queue[k]
    OBVIOUS
  <1>4. m.action = o.action /\ m.key = o.key /\ m.vals = o.vals /\ m.id = fl.got
    BY <1>2, <1>3 DEF Readdressed
  <1>5. \A x \in Creations' : x \in Creations \/ (x = m /\ m.action = "create")
    BY <1>1, <1>2, <1>3 DEF Creations
  <1>6. m.action = "create" => o \in Creations
    BY <1>2, <1>3, <1>4, CreationOf
  <1>7. m.key \in DOMAIN answers /\ answers[m.key].id = fl.got
    <2>1. o.key = Thing(fl.from) /\ Thing(fl.from) = server[fl.got].thing
      BY <1>1, <1>2, <1>3 DEF SyncInv, QueueInv, MutationOK, FlushInv
    <2> QED
      BY <1>1, <1>4, <2>1 DEF TodoInv
  <1>8. (Creating' <=> Creating) /\ op' = op
    BY <1>1 DEF Creating
  <1>9. \A x \in Creations' :
         /\ x.key \in DOMAIN answers => x.vals = answers[x.key].row.vals
         /\ ~ (x.id < 0) => x.key \in DOMAIN answers /\ x.id = answers[x.key].id
         /\ Creating => x.key # - op.id
    BY <1>4, <1>5, <1>6, <1>7 DEF MadeFrom
  <1>10. \A x, y \in Creations' : x.key = y.key => x.vals = y.vals
    <2>1. \A x \in Creations' : \E z \in Creations : z.key = x.key /\ z.vals = x.vals
      BY <1>4, <1>5, <1>6
    <2> QED
      BY <2>1 DEF MadeFrom
  <1> QED
    BY <1>1, <1>8, <1>9, <1>10 DEF MadeFrom

LEMMA MadeFromStep ==
  ASSUME TypeOK, TypeOK', SyncInv, TodoInv, MadeFrom, [Next]_vars
  PROVE  MadeFrom'
  <1>1. ASSUME answers' = answers, CallKept, queue' = queue, sy'.remaining \in {sy.remaining, queue, <<>>} PROVE MadeFrom'
    BY <1>1, SameCreations, MadeFromKept
  <1>3. op' = op \/ op' = NoOp => CallKept
    BY DEF CallKept, Creating, NoOp
  <1>4. CASE createInventoryItem
    BY <1>4, MadeFromCreate
  <1>5. CASE updateItem \/ updateItemStatus
    <2>1. UNCHANGED <<answers, queue, sy>> /\ op'.action # "create"
      <3>1. ASSUME NEW i, NEW t, NEW row, NEW base, NEW dirty, NEW action, Begin(action, i, t, row, base, dirty),
                   action # "create"
            PROVE  UNCHANGED <<answers, queue, sy>> /\ op'.action # "create"
        BY <3>1 DEF Begin
      <3>2. CASE updateItem
        BY <3>1, <3>2 DEF updateItem
      <3>3. CASE updateItemStatus
        BY <3>1, <3>3 DEF updateItemStatus
      <3> QED
        BY <1>5, <3>2, <3>3
    <2> QED
      BY <1>1, <2>1 DEF CallKept, Creating
  <1>6. CASE SendCreate
    <2>1. UNCHANGED <<queue, sy, answers>> /\ op.at = "send" /\ op.action = "create"
      BY <1>6, SendCreateDoes
    <2>2. CallKept
      <3>1. ASSUME NEW n, NEW row, op' = [op EXCEPT !.at = "cache", !.id = n, !.row = row] PROVE CallKept
        <4>1. op'.at = "cache"
          BY <3>1 DEF TypeOK, OpOK
        <4> QED
          BY <4>1 DEF CallKept, Creating
      <3>2. NextOp("keep") => CallKept
        BY <2>1 DEF NextOp, CallKept, Creating, TypeOK, OpOK
      <3> QED
        BY <1>6, <3>1, <3>2, SendCreateDoes
    <2> QED
      BY <1>1, <2>1, <2>2
  <1>7. CASE SendChange
    <2>1. UNCHANGED <<queue, sy, answers>> /\ op.action \in {"update", "status_update"}
      BY <1>7, SendChangeDoes
    <2>2. op'.action # "create" \/ op' = NoOp
      <3>1. ASSUME NEW row, op' = [op EXCEPT !.at = "cache", !.row = row] PROVE op'.action = op.action
        BY <3>1 DEF TypeOK, OpOK
      <3>2. NextOp("keep") \/ NextOp("queue") \/ NextOp("revert") => op'.action = op.action
        BY DEF NextOp, TypeOK, OpOK
      <3> QED
        BY <1>7, <2>1, <3>1, <3>2, SendChangeDoes
    <2> QED
      BY <1>1, <1>3, <2>1, <2>2 DEF CallKept, Creating
  <1>8. CASE KeepLocally
    <2>1. UNCHANGED <<queue, sy, answers>> /\ op.at = "keep"
          /\ (op' = NoOp \/ (op'.at = "queue" /\ op'.action = op.action /\ op'.id = op.id))
      BY <1>8, KeepDoes
    <2>2. CallKept
      BY <1>3, <2>1 DEF CallKept, Creating
    <2> QED
      BY <1>1, <2>1, <2>2
  <1>9. CASE _cacheItems \/ RevertStatus \/ flushPendingMutations \/ Connect \/ Disconnect \/ UNCHANGED vars
    <2>1. UNCHANGED <<queue, sy, answers>> /\ (op' = op \/ op' = NoOp)
      BY <1>9 DEF _cacheItems, RevertStatus, flushPendingMutations, Connect, Disconnect, vars
    <2> QED
      BY <1>1, <1>3, <2>1
  <1>10. CASE _enqueue
    BY <1>10, MadeFromEnqueue
  <1>11. CASE Others \/ cleanupOrphanedItems
    <2>1. UNCHANGED <<queue, answers>> /\ (op' = op \/ op' = NoOp) /\ (sy' = sy \/ sy' = NoSync)
      BY <1>11, OthersDo DEF cleanupOrphanedItems
    <2>2. sy'.remaining \in {sy.remaining, queue, <<>>}
      BY <2>1 DEF NoSync
    <2> QED
      BY <1>1, <1>3, <2>1, <2>2
  <1>12. CASE SyncStep
    <2>1. UNCHANGED <<queue, answers, op>>
      BY <1>12 DEF SyncStep, syncInventoryItems, SeePending, GetItems, clearAll, _replaceCache
    <2>2. sy'.remaining \in {sy.remaining, queue, <<>>}
      <3>1. CASE syncInventoryItems
        BY <3>1 DEF syncInventoryItems, NextSync, TypeOK, SyncOK
      <3>2. CASE SeePending
        BY <3>2 DEF SeePending, TypeOK, SyncOK
      <3>3. CASE GetItems
        <4>1. CASE sy' = NoSync
          BY <4>1 DEF NoSync
        <4>2. CASE sy' # NoSync
          <5>1. PICK remote : sy' = [sy EXCEPT !.at = "replace", !.remote = remote]
            BY <3>3, <4>2 DEF GetItems
          <5> QED
            BY <5>1 DEF TypeOK, SyncOK
        <4> QED
          BY <4>1, <4>2
      <3>4. CASE clearAll
        BY <3>4 DEF clearAll, TypeOK, SyncOK
      <3>5. CASE _replaceCache
        BY <3>5 DEF _replaceCache, NoSync
      <3> QED
        BY <1>12, <3>1, <3>2, <3>3, <3>4, <3>5 DEF SyncStep
    <2> QED
      BY <1>1, <1>3, <2>1, <2>2
  <1>13. CASE FlushCreate
    BY <1>13, MadeFromFlush
  <1>14. CASE _retargetPendingMutations
    BY <1>14, MadeFromRetarget
  <1>15. CASE _rebasePendingMutations
    <2>1. fl.at = "rebase" /\ UNCHANGED <<answers, op, sy>> /\ DOMAIN queue' = DOMAIN queue
      BY <1>15, RebaseDoes
    <2>2. PICK k \in fl.todo :
                /\ k \in DOMAIN queue
                /\ \A j \in DOMAIN queue : j # k => queue'[j] = queue[j]
                /\ Readdressed(queue[k], queue'[k], queue[k].id, fl.row.version)
      BY <1>15, RebaseDoes
    <2>3. queue'[k].action # "create"
      BY <2>1, <2>2 DEF SyncInv, FlushInv, Readdressed
    <2>4. \A j \in DOMAIN queue' : queue'[j].action = "create" => \E l \in DOMAIN queue : queue[l] = queue'[j]
      BY <2>1, <2>2, <2>3
    <2> QED
      BY <1>3, <2>1, <2>4, SameCreations, MadeFromKept
  <1>16. CASE _deleteMutation
    <2>1. UNCHANGED <<answers, op, sy>> /\ \A j \in DOMAIN queue' : \E l \in DOMAIN queue : queue[l] = queue'[j]
      BY <1>16, DeleteDoes
    <2> QED
      BY <1>3, <2>1, SameCreations, MadeFromKept
  <1>17. CASE FlushedAll \/ DropLocal \/ _applyWithConflictResolution \/ _fetchServerItem \/ PutSynced
              \/ AnswerNotStored \/ RefuseCreate
    <2>1. UNCHANGED <<answers, op, sy, queue>>
      BY <1>17 DEF FlushedAll, DropLocal, _applyWithConflictResolution, AnswerNotStored, RefuseCreate,
         _fetchServerItem, PutSynced
    <2> QED
      BY <1>1, <1>3, <2>1
  <1> QED
    BY <1>4, <1>5, <1>6, <1>7, <1>8, <1>9, <1>10, <1>11, <1>12, <1>13, <1>14, <1>15, <1>16, <1>17
       DEF Next, OpStep, FlushStep

----------------------------------------
(* What the tables show.                                                   *)
LEMMA AwaitsStays ==
  ASSUME TypeOK, TypeOK', SyncInv, MadeOnce, TodoInv, mine \in Histories, [Next]_vars,
         NEW i \in DOMAIN server, i \in DOMAIN server', server'[i] = server[i], NEW c \in Fields, NEW v,
         Awaits(i, c, v), ~ Knows(i, c, v), ~ Excused(i, c)
  PROVE  Loose(i, c, v)'
  <1>1. op.at = "queue" /\ op.action = "update" /\ op.id = i /\ op.row.version = server[i].version /\ op.row.vals[c] = v
    BY DEF Awaits
  <1>2. c \in Columns /\ ~ (i < 0) /\ Thing(i) = server[i].thing
    BY MadeIs DEF Columns
  <1>3. op' = op => Loose(i, c, v)'
    BY <1>1 DEF Loose, Awaits
  <1>4. CASE _enqueue
    <2>1. PICK n, m : n = Len(queue) + 1 /\ m = queue'[n]
      OBVIOUS
    <2>2. /\ n \in DOMAIN queue' /\ m.action = "update" /\ m.id = i /\ m.vals = op.row.vals /\ m.version = op.row.version
          /\ UNCHANGED fl /\ DOMAIN queue = 1..Len(queue) /\ Len(queue) \in Nat
      BY <1>1, <1>4, <2>1, EnqueueDoes
    <2>3. Carried' => n # 1
      <3> SUFFICES ASSUME Carried PROVE n # 1
        BY <2>2 DEF Carried
      <3>1. queue # <<>>
        BY DEF Carried, TypeOK, FlushOK
      <3>2. Len(queue) # 0
        BY <2>2, <3>1 DEF TypeOK, IsQueue
      <3> QED
        BY <2>1, <2>2, <3>2
    <2>4. HasQueued(n, i, c, v)'
      BY <1>1, <2>1, <2>2, <2>3 DEF HasQueued, SetBy
    <2>5. Knows(i, c, v)' <=> (v = server'[i].vals[c] \/ \E k : HasQueued(k, i, c, v)')
      <3>1. ASSUME NEW k, HasQueued(k, i, c, v)' PROVE Knows(i, c, v)'
        <4>1. /\ k \in DOMAIN queue' /\ queue'[k].id = i /\ c \in SetBy(queue'[k].action) /\ queue'[k].action # "create"
              /\ queue'[k].vals[c] = v /\ (c \in queue'[k].dirty \/ queue'[k].version = server'[i].version) /\ (Carried' => k # 1)
          BY <3>1 DEF HasQueued
        <4>2. Thing(queue[k].id)' = server'[i].thing
          BY <1>2, <4>1 DEF Thing
        <4>3. PICK t : t = server'[i].thing
          OBVIOUS
        <4>4. k \in PendingOf(t)'
          BY <4>1, <4>2, <4>3 DEF PendingOf
        <4>5. k \in Writes(t, c)'
          BY <4>1, <4>4 DEF Writes
        <4>6. Writes(server[i].thing, c)' = Writes(t, c)'
          BY <4>3 DEF Writes, PendingOf
        <4> QED
          BY <4>1, <4>5, <4>6 DEF Knows
      <3>2. Knows(i, c, v)' => v = server'[i].vals[c] \/ \E k : HasQueued(k, i, c, v)'
        BY <2>4
      <3>3. v = server'[i].vals[c] => Knows(i, c, v)'
        BY DEF Knows
      <3> QED
        BY <3>1, <3>2, <3>3
    <2> QED
      BY <2>4, <2>5 DEF Loose
  <1>5. CASE cleanupOrphanedItems
    <2>1. UNCHANGED <<server, queue>> /\ touched' = touched \cup {<<Thing(op.id), d>> : d \in Stranded}
      BY <1>5 DEF cleanupOrphanedItems
    <2>2. CASE c \in Stranded
      BY <1>1, <1>2, <2>1, <2>2 DEF Loose, Excused
    <2>3. CASE c \notin Stranded
      <3>1. v # server[i].vals[c]
        BY DEF Knows
      <3>2. PICK k \in Writes(Thing(op.id), c) : queue[k].id = op.id /\ c \in queue[k].dirty /\ queue[k].vals[c] = op.row.vals[c]
        BY <1>1, <2>3, <3>1 DEF Stranded
      <3> QED
        BY <1>1, <1>2, <3>2 DEF Knows
    <2> QED
      BY <2>2, <2>3
  <1>6. CASE createInventoryItem \/ updateItem \/ updateItemStatus
    BY <1>1, <1>6, BeginDoes
  <1>7. CASE SendCreate \/ SendChange \/ _cacheItems \/ RevertStatus \/ KeepLocally
    BY <1>1, <1>7 DEF SendCreate, SendChange, _cacheItems, RevertStatus, KeepLocally
  <1>8. CASE flushPendingMutations \/ FlushStep \/ SyncStep \/ Others \/ Connect \/ Disconnect \/ UNCHANGED vars
    <2>1. op' = op
      BY <1>8, OthersDo DEF flushPendingMutations, FlushStep, FlushedAll, FlushCreate, _retargetPendingMutations,
         DropLocal, _applyWithConflictResolution, AnswerNotStored, RefuseCreate, _fetchServerItem,
         _rebasePendingMutations, PutSynced, _deleteMutation, SyncStep, syncInventoryItems, SeePending, GetItems,
         clearAll, _replaceCache, Connect, Disconnect, vars
    <2> QED
      BY <1>3, <2>1, SMTT(30)
  <1> QED
    BY <1>4, <1>5, <1>6, <1>7, <1>8 DEF Next, OpStep

LEMMA LooseStays ==
  ASSUME TypeOK, TypeOK', SyncInv, MadeOnce, TodoInv, mine \in Histories, [Next]_vars,
         NEW i \in DOMAIN server, i \in DOMAIN server', server'[i] = server[i], NEW c \in Fields, NEW v,
         Loose(i, c, v)
  PROVE  Loose(i, c, v)'
  <1>1. c \in Columns
    BY DEF Columns
  <1>2. CASE Knows(i, c, v) \/ Excused(i, c)
    BY <1>1, <1>2, KnowsStays DEF Loose
  <1>3. CASE ~ Knows(i, c, v) /\ ~ Excused(i, c)
    BY <1>3, AwaitsStays DEF Loose
  <1> QED
    BY <1>2, <1>3

----------------------------------------
(* A synchronisation fills the table with rows that were loose, and with   *)
(* creations, which have what the server has.                              *)
LEMMA FilledLoose ==
  ASSUME TypeOK, SyncInv, MadeFrom, LooseRows, _replaceCache, NEW i \in DOMAIN server, NEW c \in Fields,
         i \in DOMAIN local', local'[i].version = server[i].version
  PROVE  Loose(i, c, local'[i].vals[c])
  <1> DEFINE filled == [j \in DOMAIN local \cup DOMAIN sy.remote |->
                          IF j \in DOMAIN sy.remote THEN sy.remote[j] ELSE local[j]]
             shown == {local[j].vals[c] : j \in DOMAIN local} \cup {sy.snapshot[j].vals[c] : j \in DOMAIN sy.snapshot}
                        \cup {server[i].vals[c]}
  <1>1. local' = FoldLeft(Reapplied, filled, sy.remaining)
    BY DEF _replaceCache
  <1>2. PICK n, P : n = server[i].version /\ P = {v \in shown : Loose(i, c, v)}
    OBVIOUS
  <1>3. IsTable(filled) /\ IsQueue(sy.remaining)
    BY DEF TypeOK, SyncOK, IsTable
  <1>4. server[i].vals[c] \in P
    BY <1>2 DEF Loose, Knows
  <1>5. Shown(filled, i, c, n, P)
    <2>1. i \in DOMAIN sy.remote => Honest(i, sy.remote[i])
      BY DEF SyncInv, RowsInv
    <2>2. i \in DOMAIN sy.remote /\ sy.remote[i].version = n => sy.remote[i].vals[c] \in P
      BY <1>2, <1>4, <2>1 DEF Honest, Fresh
    <2>3. i \in DOMAIN local /\ local[i].version = n => local[i].vals[c] \in P
      BY <1>2 DEF LooseRows
    <2> QED
      BY <2>2, <2>3 DEF Shown
  <1>6. Shown(sy.snapshot, i, c, n, P)
    BY <1>2 DEF LooseRows, Shown
  <1> HIDE DEF filled, shown
  <1>7. ASSUME NEW k \in DOMAIN sy.remaining, sy.remaining[k].action = "create", sy.remaining[k].id = i, n = 1
        PROVE  sy.remaining[k].vals[c] \in P
    <2>1. PICK m : m = sy.remaining[k]
      OBVIOUS
    <2>2. m \in Creations /\ m.id = i
      BY <1>7, <2>1 DEF Creations
    <2>3. ~ (i < 0)
      BY MadeIs
    <2>4. m.key \in DOMAIN answers /\ answers[m.key].id = i /\ m.vals = answers[m.key].row.vals
      BY <2>2, <2>3 DEF MadeFrom
    <2>5. Honest(i, answers[m.key].row) /\ answers[m.key].row.version = 1
      BY <2>4 DEF SyncInv, AnswersInv
    <2>6. m.vals[c] = server[i].vals[c]
      BY <1>2, <1>7, <2>4, <2>5 DEF Honest, Fresh
    <2> QED
      BY <1>4, <2>1, <2>6
  <1>8. Shown(local', i, c, n, P)
    BY <1>1, <1>3, <1>5, <1>6, <1>7, FilledShown
  <1> QED
    BY <1>2, <1>8 DEF Shown

(* What a table shows after a step it showed before, or the call keeps.    *)
LEMMA TablesLoose ==
  ASSUME TypeOK, TypeOK', SyncInv, MadeFrom, LooseRows, [Next]_vars,
         NEW i \in DOMAIN server, NEW c \in Fields, NEW v,
         \/ i \in DOMAIN local' /\ local'[i].version = server[i].version /\ v = local'[i].vals[c]
         \/ i \in DOMAIN sy'.snapshot /\ sy'.snapshot[i].version = server[i].version /\ v = sy'.snapshot[i].vals[c]
  PROVE  Loose(i, c, v) \/ (KeepLocally /\ server' = server /\ Awaits(i, c, v)')
  <1>1. c # "status" /\ c \in Columns /\ i \in Nat \ {0}
    BY OfflineSyncAssumption, MadeIs DEF Columns
  <1> DEFINE Old(T) == i \in DOMAIN T /\ T[i].version = server[i].version /\ v = T[i].vals[c]
  <1>2. Old(local) => Loose(i, c, v)
    BY DEF LooseRows
  <1>3. Old(sy.snapshot) => Loose(i, c, v)
    BY DEF LooseRows
  <1>4. Old(local') \/ Old(sy'.snapshot)
    OBVIOUS
  <1>5. UNCHANGED sy \/ sy' = NoSync => (Old(sy'.snapshot) => Old(sy.snapshot))
    BY DEF NoSync
  <1>6. \A row : Honest(i, row) /\ row.version = server[i].version => row.vals[c] = server[i].vals[c]
    BY DEF Honest, Fresh
  <1>7. v = server[i].vals[c] => Loose(i, c, v)
    BY DEF Loose, Knows
  <1>8. ASSUME UNCHANGED sy \/ sy' = NoSync, i \in DOMAIN local' => i \in DOMAIN local /\ local'[i].version = local[i].version
                                                             /\ local'[i].vals[c] = local[i].vals[c]
        PROVE  Loose(i, c, v)
    BY <1>2, <1>3, <1>4, <1>5, <1>8
  <1>9. CASE createInventoryItem \/ updateItem \/ updateItemStatus
    <2>1. UNCHANGED sy
      BY <1>9, BeginDoes
    <2>2. \/ UNCHANGED local
          \/ /\ op'.id \in DOMAIN local /\ local' = [local EXCEPT ![op'.id] = op'.row]
             /\ \E s : Varies(op'.row, local[op'.id], "status", s)
      BY <1>9, BeginDoes
    <2>3. i \in DOMAIN local' => i \in DOMAIN local /\ local'[i].version = local[i].version /\ local'[i].vals[c] = local[i].vals[c]
      <3>1. CASE UNCHANGED local
        BY <3>1
      <3>2. CASE op'.id # i /\ op'.id \in DOMAIN local /\ local' = [local EXCEPT ![op'.id] = op'.row]
        BY <3>2
      <3>3. CASE op'.id = i /\ i \in DOMAIN local /\ local' = [local EXCEPT ![op'.id] = op'.row]
                 /\ \E s : Varies(op'.row, local[op'.id], "status", s)
        <4>1. local'[i] = op'.row
          BY <3>3
        <4>2. op'.row.version = local[i].version /\ op'.row.vals[c] = local[i].vals[c]
          BY <1>1, <3>3 DEF Varies
        <4> QED
          BY <3>3, <4>1, <4>2
      <3> QED
        BY <2>2, <3>1, <3>2, <3>3
    <2> QED
      BY <1>8, <2>1, <2>3
  <1>10. CASE _cacheItems
    <2>1. UNCHANGED sy /\ local' = With(local, op.id, op.row) /\ op.at = "cache"
      BY <1>10 DEF _cacheItems
    <2>2. op.id = i => Honest(i, op.row)
      BY <2>1 DEF SyncInv, OpInv
    <2>3. Old(local') => Old(local) \/ v = server[i].vals[c]
      BY <1>6, <2>1, <2>2 DEF With
    <2> QED
      BY <1>2, <1>3, <1>4, <1>7, <2>1, <2>3
  <1>11. CASE RevertStatus
    <2>1. UNCHANGED sy
      BY <1>11 DEF RevertStatus
    <2>2. i \in DOMAIN local' => i \in DOMAIN local /\ local'[i].version = local[i].version
                                 /\ local'[i].vals[c] = local[i].vals[c]
      <3>1. CASE op.id \in DOMAIN local
        <4>a. PICK j \in DOMAIN local : \E s : local' = [local EXCEPT ![j].vals["status"] = s]
          BY <1>11, <3>1 DEF RevertStatus
        <4>1. PICK s : local' = [local EXCEPT ![j].vals["status"] = s]
          BY <4>a
        <4>2. local[j] \in Rows
          BY DEF TypeOK, IsTable
        <4>3. PICK vals : vals = [local[j].vals EXCEPT !["status"] = s]
          OBVIOUS
        <4>4. vals[c] = local[j].vals[c]
          BY <1>1, <4>2, <4>3 DEF Rows, AllVals
        <4>5. local' = [local EXCEPT ![j] = [local[j] EXCEPT !.vals = vals]]
          BY <4>1, <4>3
        <4>6. [local[j] EXCEPT !.vals = vals] = [vals |-> vals, version |-> local[j].version]
          BY <4>2 DEF Rows
        <4> QED
          BY <4>4, <4>5, <4>6
      <3>2. CASE op.id \notin DOMAIN local
        BY <1>11, <3>2 DEF RevertStatus
      <3> QED
        BY <3>1, <3>2
    <2> QED
      BY <1>8, <2>1, <2>2
  <1>12. CASE KeepLocally
    <2>1. UNCHANGED <<sy, server>> /\ op.at = "keep" /\ op.action \in Actions
          /\ \/ UNCHANGED local
             \/ /\ local' = With(local, op.id, op'.row) /\ op'.id = op.id /\ op'.action = op.action /\ op'.at = "queue"
      BY <1>12, KeepDoes
    <2>2. op.id = i => op.action = "update"
      <3>1. op.action = "create" => - op.id \in 1..ops /\ op.id \in Int /\ ops \in Nat
        BY <2>1, OfflineSyncAssumption DEF TypeOK, OpOK, ServerOK
      <3>2. op.action # "status_update"
        BY <2>1 DEF SyncInv, OpInv
      <3> QED
        BY <1>1, <2>1, <3>1, <3>2 DEF Actions
    <2>3. Old(local') => Old(local) \/ (op.id = i /\ op'.id = i /\ op'.action = "update" /\ op'.at = "queue" /\ local'[i] = op'.row)
      BY <2>1, <2>2 DEF With
    <2>4. CASE Old(local') /\ ~ Old(local)
      <3>1. op'.at = "queue" /\ op'.action = "update" /\ op'.id = i /\ op'.row.version = server'[i].version /\ op'.row.vals[c] = v
        BY <2>1, <2>3, <2>4
      <3> QED
        BY <1>12, <2>1, <3>1 DEF Awaits
    <2> QED
      BY <1>2, <1>3, <1>4, <2>1, <2>4
  <1>13. CASE DropLocal \/ cleanupOrphanedItems
    <2>1. (UNCHANGED sy \/ sy' = NoSync) /\ \E ids : local' = Without(local, ids)
      BY <1>13 DEF DropLocal, cleanupOrphanedItems
    <2> QED
      BY <1>8, <2>1 DEF Without
  <1>14. CASE PutSynced
    <2>1. UNCHANGED sy /\ local' = With(local, fl.got, fl.row) /\ fl.at = "put"
      BY <1>14 DEF PutSynced
    <2>2. fl.got = i => Honest(i, fl.row)
      BY <2>1 DEF SyncInv, FlushInv
    <2>3. Old(local') => Old(local) \/ v = server[i].vals[c]
      BY <1>6, <2>1, <2>2 DEF With
    <2> QED
      BY <1>2, <1>3, <1>4, <1>7, <2>1, <2>3
  <1>15. CASE syncInventoryItems \/ SeePending \/ GetItems
    <2>1. UNCHANGED local /\ (sy'.snapshot = sy.snapshot \/ sy' = NoSync)
      BY <1>15 DEF syncInventoryItems, SeePending, GetItems, NextSync, TypeOK, SyncOK
    <2> QED
      BY <1>2, <1>3, <1>4, <1>5, <2>1
  <1>16. CASE clearAll
    <2>1. /\ local' = <<>>
          /\ \A j \in DOMAIN sy'.snapshot : j \in DOMAIN local /\ sy'.snapshot[j] = local[j]
      BY <1>16 DEF clearAll, Emptied, TypeOK, SyncOK, getAllItems
    <2> QED
      BY <1>2, <1>4, <2>1
  <1>17. CASE _replaceCache
    <2>1. sy' = NoSync
      BY <1>17 DEF _replaceCache
    <2>2. ASSUME Old(local') PROVE Loose(i, c, v)
      <3>1. Loose(i, c, local'[i].vals[c])
        BY <2>2, <1>17, FilledLoose
      <3> QED
        BY <2>2, <3>1
    <2> QED
      BY <1>3, <1>4, <1>5, <2>1, <2>2
  <1>18. CASE SendCreate \/ SendChange \/ _enqueue
    BY <1>8, <1>18 DEF SendCreate, SendChange, _enqueue
  <1>19. CASE FlushStep
    <2>1. CASE ~ (DropLocal \/ PutSynced)
      BY <1>8, <1>19, <2>1 DEF FlushStep, FlushedAll, FlushCreate, _retargetPendingMutations,
         _applyWithConflictResolution, AnswerNotStored, RefuseCreate, _fetchServerItem, _rebasePendingMutations,
         _deleteMutation
    <2> QED
      BY <1>13, <1>14, <2>1, SMTT(30)
  <1>20. CASE flushPendingMutations \/ Connect \/ Disconnect \/ UNCHANGED vars
    BY <1>8, <1>20 DEF flushPendingMutations, Connect, Disconnect, vars
  <1>21. CASE Others
    BY <1>8, <1>21, OthersDo, SMTT(30)
  <1> QED
    BY <1>9, <1>10, <1>11, <1>12, <1>13, <1>15, <1>16, <1>17, <1>18, <1>19, <1>20, <1>21
       DEF Next, OpStep, SyncStep

----------------------------------------
LEMMA OnlyTheServer ==
  ASSUME TypeOK, [Next]_vars, server' # server
  PROVE  UNCHANGED <<local, sy>>
  <1>1. SendCreate \/ SendChange \/ FlushCreate \/ AnswerNotStored \/ _applyWithConflictResolution \/ Others
    <2>1. ~ (createInventoryItem \/ updateItem \/ updateItemStatus)
      BY BeginDoes
    <2> QED
      BY <2>1 DEF Next, vars, OpStep, FlushStep, SyncStep, _cacheItems, RevertStatus, KeepLocally, _enqueue,
         flushPendingMutations, FlushedAll, _retargetPendingMutations, DropLocal, RefuseCreate,
         _fetchServerItem, _rebasePendingMutations, PutSynced, _deleteMutation, syncInventoryItems, SeePending,
         GetItems, clearAll, _replaceCache, Connect, Disconnect, cleanupOrphanedItems
  <1> QED
    BY <1>1, OthersDo, NotStoredDoes, SMTT(30) DEF SendCreate, SendChange, FlushCreate, _applyWithConflictResolution

LEMMA LooseRowsStep ==
  ASSUME TypeOK, TypeOK', SyncInv, MadeOnce, TodoInv, mine \in Histories, MadeFrom, LooseRows, [Next]_vars
  PROVE  LooseRows'
  <1>1. Later
    BY LaterStep
  <1>2. SUFFICES ASSUME NEW i \in DOMAIN server', NEW c \in Fields, NEW v,
                        \/ i \in DOMAIN local' /\ local'[i].version = server'[i].version /\ v = local'[i].vals[c]
                        \/ i \in DOMAIN sy'.snapshot /\ sy'.snapshot[i].version = server'[i].version /\ v = sy'.snapshot[i].vals[c]
                 PROVE  Loose(i, c, v)'
    <2>1. ASSUME NEW i \in DOMAIN server', NEW c \in Fields, i \in DOMAIN local', local'[i].version = server'[i].version
          PROVE  Loose(i, c, local[i].vals[c])'
      <3>1. PICK v : v = local'[i].vals[c]
        OBVIOUS
      <3>2. Loose(i, c, v)'
        BY <1>2, <2>1, <3>1
      <3> QED
        BY <3>1, <3>2 DEF Loose, Knows, Awaits, Excused
    <2>2. ASSUME NEW i \in DOMAIN server', NEW c \in Fields, i \in DOMAIN sy'.snapshot, sy'.snapshot[i].version = server'[i].version
          PROVE  Loose(i, c, sy.snapshot[i].vals[c])'
      <3>1. PICK v : v = sy'.snapshot[i].vals[c]
        OBVIOUS
      <3>2. Loose(i, c, v)'
        BY <1>2, <2>2, <3>1
      <3> QED
        BY <3>1, <3>2 DEF Loose, Knows, Awaits, Excused
    <2> QED
      BY <2>1, <2>2 DEF LooseRows
  <1>3. CASE i \in DOMAIN server /\ server'[i] = server[i]
    <2>1. Loose(i, c, v) \/ Awaits(i, c, v)'
      BY <1>2, <1>3, TablesLoose
    <2>2. Awaits(i, c, v)' => Loose(i, c, v)'
      BY DEF Loose
    <2> QED
      BY <1>2, <1>3, <2>1, <2>2, LooseStays
  <1>4. CASE i \notin DOMAIN server
    <2>1. i \notin DOMAIN local' /\ i \notin DOMAIN sy'.snapshot
      <3>1. ~ IsId(i)
        <4>1. i \in Nat \ {0}
          BY LaterItem DEF TypeOK
        <4> QED
          BY <1>4, <4>1, ThingIs DEF TypeOK
      <3>2. i \notin DOMAIN local /\ i \notin DOMAIN sy.snapshot
        BY <3>1 DEF TypeOK, IsTable, SyncOK
      <3>3. UNCHANGED <<local, sy>>
        BY <1>2, <1>4, OnlyTheServer
      <3> QED
        BY <3>2, <3>3
    <2> QED
      BY <1>2, <2>1
  <1>5. CASE i \in DOMAIN server /\ server'[i] # server[i]
    <2>1. server[i].version < server'[i].version
      BY <1>1, <1>5 DEF Later
    <2>2. UNCHANGED <<local, sy>>
      BY <1>5, OnlyTheServer
    <2>3. /\ i \in DOMAIN local => local[i].version \in 1..server[i].version
          /\ i \in DOMAIN sy.snapshot => sy.snapshot[i].version \in 1..server[i].version
      BY <1>5 DEF SyncInv, RowsInv, NotAhead
    <2>4. server[i].version \in Nat /\ server'[i].version \in Nat
      BY <1>2, <1>5, ServerItem, LaterItem DEF TypeOK
    <2> QED
      BY <1>2, <2>1, <2>2, <2>3, <2>4
  <1> QED
    BY <1>3, <1>4, <1>5

(* What an open form sends of fields it does not change: nothing of it is  *)
(* newer than the item, so only steps that leave the item alone matter.    *)
LEMMA OpRowBegin ==
  ASSUME TypeOK, TypeOK', SyncInv, MadeOnce, TodoInv, mine \in Histories, LooseRows, [Next]_vars, updateItem
  PROVE  OpRow'
  <1>1. PICK i, row, f, v : /\ i = op'.id /\ row = op'.row /\ i \in DOMAIN local /\ f \in Fields /\ op'.dirty = {f}
                            /\ Varies(row, local[i], f, v) /\ UNCHANGED <<server, local>> /\ op.at = "idle"
                            /\ op'.action = "update"
    <2>1. op'.action = "update"
      <3>1. PICK j, t, new, base, dirty : Begin("update", j, t, new, base, dirty)
        BY DEF updateItem
      <3> QED
        BY <3>1 DEF Begin
    <2> QED
      BY <2>1, BeginDoes
  <1>2. SUFFICES ASSUME i \in DOMAIN server, row.version = server[i].version, NEW c \in Fields
                 PROVE  mine'[server[i].thing][c] = Null \/ Excused(i, c)' \/ Knows(i, c, row.vals[c])'
    BY <1>1 DEF OpRow, Fresh, Excused, Knows
  <1>3. CASE c = f
    <2>1. PICK t, columns : t = Thing(op'.id) /\ columns = op'.dirty /\ mine' = Forget(mine, t, columns) /\ columns \subseteq Columns
      BY <1>1, BeginDoes
    <2>2. t \in Things /\ t = server[i].thing
      BY <1>1, <1>2, <2>1, MadeIs
    <2>3. c \in columns
      BY <1>1, <1>3, <2>1
    <2> HIDE <1>1, <1>2
    <2>4. mine'[t][c] = Null
      BY <2>1, <2>2, <2>3, ForgetIs
    <2> QED
      BY <2>2, <2>4
  <1>4. CASE c # f
    <2>1. c \in Columns
      BY DEF Columns
    <2>2. PICK w : w = row.vals[c]
      OBVIOUS
    <2>3. w = local[i].vals[c] /\ local[i].version = server[i].version
      BY <1>1, <1>2, <1>4, <2>1, <2>2 DEF Varies
    <2>4. Loose(i, c, w) /\ ~ Awaits(i, c, w)
      BY <1>1, <1>2, <2>3 DEF LooseRows, Awaits
    <2>5. Knows(i, c, w)' \/ Excused(i, c)'
      BY <1>1, <1>2, <2>1, <2>4, KnowsStays DEF Loose
    <2> QED
      BY <2>2, <2>5
  <1> QED
    BY <1>3, <1>4

LEMMA OpRowStep ==
  ASSUME TypeOK, TypeOK', SyncInv, MadeOnce, TodoInv, mine \in Histories, LooseRows, OpRow, [Next]_vars
  PROVE  OpRow'
  <1>1. ASSUME Calling' /\ op'.action = "update" =>
                 /\ Calling /\ op.action = "update" /\ op'.id = op.id /\ op'.row.version = op.row.version
                 /\ \A c \in Fields : op'.row.vals[c] = op.row.vals[c]
                 /\ \A t \in Things, c \in Columns : mine[t][c] = Null => mine'[t][c] = Null
        PROVE  OpRow'
    <2> SUFFICES ASSUME Calling', op'.action = "update", Fresh(op.id, op.row)', NEW c \in Fields
                 PROVE  mine'[server'[op'.id].thing][c] = Null \/ Excused(op.id, c)' \/ Knows(op.id, c, op.row.vals[c])'
      BY DEF OpRow
    <2>1. PICK i, v : i = op.id /\ v = op.row.vals[c]
      OBVIOUS
    <2>2. /\ Calling /\ op.action = "update" /\ op'.id = i /\ op'.row.version = op.row.version /\ op'.row.vals[c] = v
          /\ \A t \in Things : mine[t][c] = Null => mine'[t][c] = Null
          /\ IsId(i) /\ c \in Columns
      BY <1>1, <2>1 DEF Columns, Calling, TypeOK, OpOK
    <2>3. i \in DOMAIN server' /\ op.row.version = server'[i].version
      BY <2>2 DEF Fresh
    <2>4. i \in DOMAIN server
      <3>1. i \in Nat \ {0}
        BY <2>3, LaterItem DEF TypeOK
      <3> QED
        BY <2>2, <3>1, ThingIs DEF TypeOK
    <2>5. server'[i] = server[i]
      <3>1. op.row.version \in 1..server[i].version
        BY <2>1, <2>2, <2>4 DEF SyncInv, OpInv, NotAhead
      <3>2. server[i].version \in Nat /\ server'[i].version \in Nat
        BY <2>3, <2>4, ServerItem, LaterItem DEF TypeOK
      <3> QED
        BY <2>3, <2>4, <3>1, <3>2, LaterStep DEF Later
    <2>6. mine[server[i].thing][c] = Null \/ Excused(i, c) \/ Knows(i, c, v)
      BY <2>1, <2>2, <2>3, <2>4, <2>5 DEF OpRow, Fresh
    <2>7. mine[server[i].thing][c] = Null => mine'[server'[i].thing][c] = Null
      BY <2>2, <2>4, <2>5, MadeIs
    <2>8. mine'[server'[i].thing][c] = Null \/ Excused(i, c)' \/ Knows(i, c, v)'
      BY <2>2, <2>3, <2>4, <2>5, <2>6, <2>7, KnowsStays
    <2> QED
      BY <2>2, <2>8 DEF Excused, Knows
  <1>2. ~ (SendCreate \/ SendChange \/ _enqueue) =>
           \A t \in Things, c \in Columns : mine[t][c] = Null => mine'[t][c] = Null
    BY MineShrinks
  <1>3. CASE createInventoryItem \/ updateItemStatus
    <2>1. op'.action # "update"
      <3>1. ASSUME NEW i, NEW t, NEW row, NEW base, NEW dirty, NEW action, Begin(action, i, t, row, base, dirty),
                   action # "update"
            PROVE  op'.action # "update"
        BY <3>1 DEF Begin
      <3>2. CASE createInventoryItem
        BY <3>1, <3>2 DEF createInventoryItem
      <3>3. CASE updateItemStatus
        BY <3>1, <3>3 DEF updateItemStatus
      <3> QED
        BY <1>3, <3>2, <3>3
    <2> QED
      BY <2>1 DEF OpRow
  <1>4. CASE updateItem
    BY <1>4, OpRowBegin
  <1>5. CASE SendCreate
    <2>1. op'.action = op.action /\ op.action = "create"
      <3>1. ASSUME NEW n, NEW row, op' = [op EXCEPT !.at = "cache", !.id = n, !.row = row] PROVE op'.action = op.action
        BY <3>1 DEF TypeOK, OpOK
      <3>2. NextOp("keep") => op'.action = op.action
        BY DEF NextOp, TypeOK, OpOK
      <3> QED
        BY <1>5, <3>1, <3>2, SendCreateDoes
    <2> QED
      BY <2>1 DEF OpRow
  <1>6. CASE SendChange
    <2>1. CASE Calling'
      <3>1. mine' = mine /\ (NextOp("keep") \/ NextOp("queue"))
        <4>1. ASSUME NEW row, op' = [op EXCEPT !.at = "cache", !.row = row] PROVE FALSE
          <5>1. op'.at = "cache"
            BY <4>1 DEF TypeOK, OpOK
          <5> QED
            BY <2>1, <5>1 DEF Calling
        <4>2. NextOp("revert") => op'.at = "revert"
          BY DEF NextOp, TypeOK, OpOK
        <4>3. op' = NoOp => op'.at = "idle"
          BY DEF NoOp
        <4> QED
          BY <1>6, <2>1, <4>1, <4>2, <4>3, SendChangeDoes DEF Calling
      <3>2. op'.id = op.id /\ op'.row = op.row /\ op'.action = op.action /\ Calling
        BY <1>6, <3>1, SendChangeDoes DEF NextOp, TypeOK, OpOK, Calling
      <3> QED
        BY <1>1, <3>1, <3>2
    <2> QED
      BY <2>1 DEF OpRow
  <1>7. CASE _cacheItems \/ RevertStatus \/ _enqueue \/ cleanupOrphanedItems
    <2>1. op' = NoOp
      BY <1>7 DEF _cacheItems, RevertStatus, _enqueue, cleanupOrphanedItems
    <2> QED
      BY <2>1 DEF OpRow, Calling, NoOp
  <1>8. CASE KeepLocally
    <2>1. CASE op' = NoOp
      BY <2>1 DEF OpRow, Calling, NoOp
    <2>2. CASE op' # NoOp
      <3>1. /\ op.at = "keep" /\ op'.action = op.action /\ op'.id = op.id /\ op'.row.version = op.row.version
            /\ \A c \in Fields : op'.row.vals[c] = op.row.vals[c]
        BY <1>8, <2>2, KeepDoes
      <3>2. ~ (SendCreate \/ SendChange \/ _enqueue)
        BY <3>1 DEF SendCreate, SendChange, _enqueue
      <3> QED
        BY <1>1, <1>2, <3>1, <3>2 DEF Calling
    <2> QED
      BY <2>1, <2>2
  <1>9. CASE flushPendingMutations \/ FlushStep \/ SyncStep \/ Others \/ Connect \/ Disconnect \/ UNCHANGED vars
    <2>1. op' = op
        BY <1>9, OthersDo DEF flushPendingMutations, FlushStep, FlushedAll, FlushCreate, _retargetPendingMutations,
           DropLocal, _applyWithConflictResolution, AnswerNotStored, RefuseCreate, _fetchServerItem,
           _rebasePendingMutations, PutSynced, _deleteMutation, SyncStep, syncInventoryItems, SeePending, GetItems,
           clearAll, _replaceCache, Connect, Disconnect, vars
    <2> QED
      BY <1>1, <1>2, <1>5, <1>6, <1>7, <2>1, SMTT(30) DEF Calling
  <1> QED
    BY <1>3, <1>4, <1>5, <1>6, <1>7, <1>8, <1>9 DEF Next, OpStep

----------------------------------------
(* The promises, all together.                                             *)
LEMMA PromisesInit ==
  ASSUME Init
  PROVE  PromisesInv
  <1>1. mine \in Histories /\ \A t \in Things, c \in Columns : mine[t][c] = Null
    BY DEF Init, Nothing, Histories, HistoryVals
  <1>2. OpMine /\ OpRow /\ TodoInv
    BY DEF Init, NoOp, NoFlush, OpMine, OpRow, TodoInv, Calling, Carried
  <1>3. MadeFrom
    BY DEF Init, NoOp, NoSync, MadeFrom, Creations, Creating
  <1>4. LooseRows
    BY DEF Init, NoSync, LooseRows, Loose, Knows, Row
  <1>5. Chains
    BY ChainsInit
  <1> QED
    BY <1>1, <1>2, <1>3, <1>4, <1>5 DEF PromisesInv

LEMMA PromisesStep ==
  ASSUME TypeOK, TypeOK', SyncInv, CreationsInv, MadeOnce, PromisesInv, [Next]_vars
  PROVE  PromisesInv'
  <1>1. mine \in Histories /\ OpMine /\ OpRow /\ TodoInv /\ MadeFrom /\ LooseRows /\ Chains
    BY DEF PromisesInv
  <1>2. (mine \in Histories)'
    BY <1>1, MineShrinks
  <1>3. OpMine'
    BY <1>1, OpMineStep
  <1>4. OpRow'
    BY <1>1, OpRowStep
  <1>5. TodoInv'
    BY <1>1, TodoInvStep
  <1>6. MadeFrom'
    BY <1>1, MadeFromStep
  <1>7. LooseRows'
    BY <1>1, LooseRowsStep
  <1>8. Chains'
    BY <1>1, ChainsStep
  <1> QED
    BY <1>2, <1>3, <1>4, <1>5, <1>6, <1>7, <1>8 DEF PromisesInv

----------------------------------------
(* Nothing that is promised of a creation is lost.                         *)
(* A column that the call builds on a value has that value from the server *)
(* or, in the end, from a pending creation.                                *)
LEMMA BuiltOnSomething ==
  ASSUME TypeOK, SyncInv, NEW t, NEW c \in Columns, NEW e, e # Null, BuildsOn(t, c, e)
  PROVE  t \in Made \cup Pending
  <1> SUFFICES ASSUME t \notin Made PROVE t \in Pending
    OBVIOUS
  <1>1. PICK W, n : W = Writes(t, c) /\ n = Len(queue) + 1
    OBVIOUS
  <1>2. W \in SUBSET Nat /\ W \subseteq DOMAIN queue /\ n \in Nat /\ \A k \in W : k < n
    BY <1>1, LinksNat, LenProperties DEF TypeOK, IsQueue
  <1>3. \A k : (\A j \in W : ~ (j < k)) => Before(t, c, k) = Null
    BY <1>1 DEF Before
  <1>4. W # {}
    BY <1>1, <1>3 DEF BuildsOn
  <1>5. PICK k \in W : \A j \in W : k <= j
    BY <1>2, <1>4, LeastIs
  <1>6. \A j \in W : ~ (j < k)
    BY <1>2, <1>5
  <1>7. queue[k].action = "create" \/ queue[k].base[c] = Null
    BY <1>1, <1>3, <1>6 DEF BuildsOn
  <1>8. k \in DOMAIN queue /\ Thing(queue[k].id) = t /\ queue[k].base \in AllVals
    BY <1>1, LinksNat DEF PendingOf, Mutations
  <1>9. queue[k].base[c] # Null
    BY <1>8, OfflineSyncAssumption DEF AllVals
  <1>10. queue[k].key = t
    BY <1>8 DEF SyncInv, QueueInv, MutationOK
  <1> QED
    BY <1>7, <1>8, <1>9, <1>10 DEF Pending

(* A creation leaves the queue only once its item is made, or refused.     *)
LEMMA PendingKept ==
  ASSUME TypeOK, SyncInv, CreationsOK, [Next]_vars
  PROVE  Pending \subseteq Pending' \cup Made \cup undated
  <1>1. CASE queue' = queue
    BY <1>1 DEF Pending
  <1>2. CASE _enqueue
    BY <1>2, EnqueueCreations
  <1>3. CASE _retargetPendingMutations \/ _rebasePendingMutations
    BY <1>3, KeysKept
  <1>4. CASE _deleteMutation
    <2>1. fl.at = "pop" /\ 1 \in DOMAIN queue
      BY <1>4, DeleteDoes
    <2>2. ASSUME NEW t \in Pending, t \notin Pending' PROVE t \in Made \cup undated
      <3>1. queue[1].action = "create" /\ t = queue[1].key
        BY <1>4, <2>2, KeysKept
      <3>2. queue[1].key = Thing(queue[1].id)
        BY <2>1 DEF SyncInv, QueueInv, MutationOK
      <3>3. queue[1].id \in DOMAIN server \/ t \in undated
        BY <2>1, <3>1 DEF SyncInv, FlushInv
      <3> QED
        BY <3>1, <3>2, <3>3, MadeIs
    <2> QED
      BY <2>2
  <1>5. queue' = queue \/ _enqueue \/ _retargetPendingMutations \/ _rebasePendingMutations \/ _deleteMutation
    <2>1. CASE ~ Moving
      BY <2>1, QuietStep
    <2>2. CASE SendCreate \/ SendChange \/ FlushCreate \/ AnswerNotStored \/ RefuseCreate \/ Others
      BY <2>2, SendCreateDoes, SendChangeDoes, FlushCreateDoes, NotStoredDoes, RefuseDoes, OthersDo
    <2>3. CASE DropLocal \/ _applyWithConflictResolution \/ cleanupOrphanedItems
      BY <2>3 DEF DropLocal, _applyWithConflictResolution, cleanupOrphanedItems
    <2> QED
      BY <2>1, <2>2, <2>3 DEF Moving
  <1> QED
    BY <1>1, <1>2, <1>3, <1>4, <1>5

LEMMA CreationsAreKeptStep ==
  ASSUME TypeOK, TypeOK', SyncInv, CreationsOK, mine \in Histories, CreationsAreKept, [Next]_vars
  PROVE  CreationsAreKept'
  <1> DEFINE Kept(t) == t \in Made' \cup Pending' \cup undated'
  <1>1. Made \subseteq Made' /\ undated \subseteq undated'
    BY LaterStep DEF Later, Made
  <1>2. ASSUME NEW t \in Things, NEW c \in Columns, mine'[t][c] \in {mine[t][c], Null}, mine'[t][c] # Null PROVE Kept(t)
    BY <1>1, <1>2, PendingKept DEF CreationsAreKept
  <1> SUFFICES ASSUME NEW t \in Things, NEW c \in Columns, mine'[t][c] # Null, mine'[t][c] # mine[t][c] PROVE Kept(t)
    BY <1>2 DEF CreationsAreKept, Things
  <1>3. SendCreate \/ SendChange \/ _enqueue
    BY MineShrinks
  <1>4. CASE SendCreate
    <2>1. mine' # mine
      OBVIOUS
    <2>2. t = - op.id
      BY <1>4, <2>1, CallPromises
    <2>3. PICK n, u, vals : u = - op.id /\ Makes(n, u, vals)
      BY <1>4, <2>1, SendCreateDoes
    <2>4. n \in DOMAIN server' /\ server'[n].thing = u
      BY <2>3 DEF Makes, Created
    <2> QED
      BY <2>2, <2>3, <2>4 DEF Made
  <1>5. CASE SendChange
    <2>1. mine' # mine
      OBVIOUS
    <2>2. t = Thing(op.id)
      BY <1>5, <2>1, CallPromises
    <2>3. op.id \in DOMAIN server
      BY <1>5, <2>1, SendChangeDoes DEF Alters
    <2> QED
      BY <1>1, <2>2, <2>3, MadeIs
  <1>6. CASE _enqueue
    <2>1. /\ t = Thing(op.id) /\ c \in op.dirty
          /\ op.action = "create" \/ BuildsOn(t, c, op.base.vals[c])
      BY <1>6, QueuePromises
    <2>2. CASE op.action = "create"
      <3>1. PICK n : n = Len(queue) + 1
        OBVIOUS
      <3>2. n \in DOMAIN queue' /\ queue'[n].action = "create" /\ queue'[n].key = t
        BY <1>6, <2>1, <2>2, <3>1, EnqueueDoes
      <3> QED
        BY <3>2 DEF Pending
    <2>3. CASE BuildsOn(t, c, op.base.vals[c])
      <3>1. PICK e : e = op.base.vals[c] /\ BuildsOn(t, c, e)
        BY <2>3
      <3>2. op.base \in Rows
        BY <1>6, EnqueueDoes
      <3>3. e # Null
        BY <3>1, <3>2, OfflineSyncAssumption DEF Rows, AllVals
      <3>4. t \in Made \cup Pending
        BY <3>1, <3>3, BuiltOnSomething
      <3> QED
        BY <1>1, <1>6, <3>4, EnqueueCreations
    <2> QED
      BY <2>1, <2>2, <2>3
  <1> QED
    BY <1>3, <1>4, <1>5, <1>6

(* Neither the user's creations and edits nor those of other members are   *)
(* lost: what a creation promised is on the server or in the queue, but    *)
(* for one without a date, what the user was promised is what the server   *)
(* has once nothing is pending, and what others gave stays, whatever is    *)
(* queued, refused, merged and sent again.                                 *)
THEOREM EditsAreKeptHolds == Spec => []EditsAreKept
  <1> DEFINE Inv == TypeOK /\ CreationsOK /\ SyncInv /\ PromisesInv /\ CreationsAreKept
  <1>1. Init => Inv
    <2>1. Init => CreationsAreKept
      BY DEF Init, Nothing, CreationsAreKept
    <2> QED
      BY <2>1, TypesInit, CreationsInit, SyncInvInit, PromisesInit
  <1>2. Inv /\ [Next]_vars => Inv'
    <2> SUFFICES ASSUME Inv, [Next]_vars PROVE Inv'
      OBVIOUS
    <2>1. TypeOK'
      BY TypesStep
    <2>2. CreationsOK' /\ CreationsInv /\ MadeOnce
      BY <2>1, CreationsStep DEF CreationsOK
    <2>3. SyncInv'
      BY <2>1, <2>2, SyncInvStep
    <2>4. PromisesInv'
      BY <2>1, <2>2, PromisesStep
    <2>5. CreationsAreKept'
      BY <2>1, CreationsAreKeptStep DEF PromisesInv
    <2> QED
      BY <2>1, <2>2, <2>3, <2>4, <2>5
  <1>3. Inv => CreationsAreKept /\ LastWriteWins
    BY ChainsKeepEdits DEF PromisesInv, CreationsOK
  <1>4. Spec => [](CreationsAreKept /\ LastWriteWins)
    BY <1>1, <1>2, <1>3, PTL DEF Spec
  <1>5. CreationsAreKept /\ LastWriteWins /\ OthersAreKept => EditsAreKept
    BY DEF EditsAreKept
  <1> QED
    BY <1>4, <1>5, OthersAreKeptHolds, PTL
=============================================================================
