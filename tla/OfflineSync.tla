---------------------------- MODULE OfflineSync ----------------------------
(***************************************************************************)
(* The inventory on a phone that is sometimes offline: what                *)
(* InventoryRepositoryImpl does at once or puts in the queue, how          *)
(* SyncManager flushes the queue and merges conflicts, and how a           *)
(* synchronisation replaces the table of local items.                      *)
(*                                                                         *)
(* The app is one isolate whose calls interleave where they await.  Three  *)
(* run beside each other: one call of the user, the flush, of which there  *)
(* is never a second, and one synchronisation; the flush also runs by      *)
(* itself, before the household is changed or the user signs out.  The     *)
(* local tables outlive the app, the calls do not.                         *)
(*                                                                         *)
(* A request to the server is one step here (the module Inventory has      *)
(* those of the server): it is answered, or its answer is lost, or it does *)
(* not arrive.  The answer to a creation, once it is stored under its key, *)
(* is kept for as long as that matters.  The screen shows the local table, *)
(* and the clock that orders the queue does not go back.                   *)
(***************************************************************************)
EXTENDS Integers, FiniteSets, SequencesExt

CONSTANTS
  Fields,     \* the fields of an item that a form shows
  Values,     \* values of a field
  Edits,      \* the fields and the statuses the user changes
  TheirEdits, \* the fields and the statuses other members change
  MaxOps,     \* bound on the calls of the user
  MaxOthers,  \* bound on the changes of other members
  MaxTrouble, \* bound on lost answers, lost connections and ends of the app
  MaxEvents,  \* bound on all of these together
  Null        \* null

ASSUME OfflineSyncAssumption ==
  /\ Edits \cup TheirEdits \subseteq Fields \cup {"frozen", "used", "gone"}
  /\ Fields # {} /\ "status" \notin Fields
  /\ Values # {} /\ Null \notin Values \cup {"active", "frozen", "used", "gone"}
  /\ MaxOps \in Nat /\ MaxOthers \in Nat /\ MaxTrouble \in Nat /\ MaxEvents \in Nat

VARIABLES
  server,   \* the items of the server, a sequence; an index is an id
  answers,  \* the idempotency cache: the items queued creations have made
  local,    \* the local table of items, by id
  queue,    \* offline_mutation_queue, in the order of created_at
  undated,  \* creations kept with a time of day, for their form named no date
  online,   \* whether requests arrive
  op,       \* the user's call
  fl,       \* the flush
  sy,       \* the synchronisation
  mine,     \* history: the last values the user was promised
  theirs,   \* history: the last values that other members gave
  touched,  \* history: the columns others, or a form never queued, have changed
  doubled,  \* history: creations whose item was made and whose key has no answer
  resent,   \* history: the things of which a form may be sent unmerged
  ops, others, trouble  \* history: what has been spent of the bounds

history == <<mine, theirs, touched, doubled, resent>>
vars == <<server, answers, local, queue, undated, online, op, fl, sy, history, ops, others, trouble>>

(* A thing is what the user means by an item: the number of the call that  *)
(* created it.  Ids of items that the server does not know are below zero. *)
Things == 0..MaxOps
offline_id(t) == - t
Thing(i) == IF i < 0 THEN - i ELSE server[i].thing

Columns == Fields \cup {"status"}
Visible == {"active", "frozen"}
Row(vals, version) == [vals |-> vals, version |-> version]
With(table, i, row) == [j \in DOMAIN table \cup {i} |-> IF j = i THEN row ELSE table[j]]
Without(table, ids) == [j \in DOMAIN table \ ids |-> table[j]]
Nothing == [t \in Things |-> [c \in Columns |-> Null]]

NoOp == [at |-> "idle", action |-> Null, id |-> 0, row |-> Null, base |-> Null, dirty |-> {}]
NoFlush == [at |-> "off", from |-> 0, got |-> 0, row |-> Null, todo |-> {}]
NoSync == [at |-> "idle", remaining |-> <<>>, remote |-> <<>>, snapshot |-> <<>>]

first == [c \in Columns |-> IF c = "status" THEN "active" ELSE CHOOSE v \in Values : TRUE]

Init ==
  /\ server = <<[thing |-> 0, vals |-> first, version |-> 1]>>
  /\ local = <<Row(first, 1)>>
  /\ answers = <<>> /\ queue = <<>> /\ undated = {} /\ online = FALSE
  /\ op = NoOp /\ fl = NoFlush /\ sy = NoSync
  /\ mine = Nothing /\ theirs = Nothing /\ touched = {} /\ doubled = {} /\ resent = {}
  /\ ops = 0 /\ others = 0 /\ trouble = 0

Eventful == ops + others + trouble < MaxEvents
Trouble == trouble < MaxTrouble /\ Eventful /\ trouble' = trouble + 1
NoTrouble == UNCHANGED trouble

----------------------------------------------------------------------------
(* The server.                                                             *)
Listed == {i \in DOMAIN server : server[i].vals["status"] \in Visible}

Code(i, version) ==
  IF i < 0 THEN "422" ELSE IF server[i].vals["status"] = "gone" THEN "404"
  ELSE IF server[i].version # version THEN "409" ELSE "200"

(* PATCH sets what the form shows, POST .../status the status.             *)
Applied(i, action, vals) ==
  LET set == IF action = "update" THEN Fields ELSE {"status"}
  IN  [server[i] EXCEPT !.vals = [c \in Columns |-> IF c \in set THEN vals[c] ELSE @[c]],
                        !.version = @ + 1]

Created(t, vals) == [thing |-> t, vals |-> [vals EXCEPT !["status"] = "active"], version |-> 1]

(* A request is answered with what came of it, or the app cannot know.     *)
Answered == online /\ NoTrouble
Lost == online /\ Trouble
Unsent == ~ online /\ NoTrouble

----------------------------------------------------------------------------
(* Calls of the user.                                                      *)
getAllItems == {i \in DOMAIN local : local[i].vals["status"] \in Visible}

Changed(a, b) == {c \in Columns : a[c] # b[c]}

(* A promise is made when a call returns; until then there is none for     *)
(* what it changes, and it may override what others have written.          *)
Forget(h, t, columns) == [h EXCEPT ![t] = [c \in Columns |-> IF c \in columns THEN Null ELSE @[c]]]

Begin(action, i, t, row, base, dirty) ==
  /\ op.at = "idle" /\ ops < MaxOps /\ Eventful /\ ops' = ops + 1
  /\ op' = [at |-> "send", action |-> action, id |-> i, row |-> row, base |-> base, dirty |-> dirty]
  /\ mine' = Forget(mine, t, dirty) /\ theirs' = Forget(theirs, t, dirty)
  /\ UNCHANGED <<server, answers, queue, undated, online, fl, sy, touched, doubled, resent, others, trouble>>

createInventoryItem ==
  /\ LET t == ops + 1 IN Begin("create", offline_id(t), t, Row(first, 1), Null, Columns)
  /\ UNCHANGED local

updateItem ==
  /\ \E i \in getAllItems, f \in Fields \cap Edits, v \in Values :
       /\ v # local[i].vals[f]
       /\ Begin("update", i, Thing(i), [local[i] EXCEPT !.vals[f] = v], Null, {f})
  /\ UNCHANGED local

(* The status is changed in the local table before anything is sent.       *)
updateItemStatus ==
  \E i \in getAllItems, s \in {"frozen", "used"} \cap Edits :
    LET row == [local[i] EXCEPT !.vals["status"] = s]
    IN  /\ s # local[i].vals["status"] /\ local' = [local EXCEPT ![i] = row]
        /\ Begin("status_update", i, Thing(i), row, local[i], {"status"})

(* What is pending of a thing, and of that what writes a column: a form    *)
(* writes every field, and a creation nothing once it is made.             *)
PendingOf(t) == {k \in DOMAIN queue : Thing(queue[k].id) = t}
SetBy(action) ==
  CASE action = "update" -> Fields [] action = "status_update" -> {"status"} [] OTHER -> Columns
Made == {server[i].thing : i \in DOMAIN server}
Carried == fl.at \in {"rebase", "put", "pop"}
Writes(t, c) ==
  {k \in PendingOf(t) : /\ c \in SetBy(queue[k].action)
                        /\ queue[k].action = "create" => t \notin Made
                        /\ Carried => k # 1}

(* A value sent at once may be overwritten by one in the queue: by a       *)
(* change of the column, or by a form that is not the first to be sent and *)
(* so gets the version of what it has never seen.  It is not promised.     *)
Overtaken(t, c) ==
  \E k \in Writes(t, c) :
    \/ c \in queue[k].dirty
    \/ \E j \in PendingOf(t) : j < k /\ queue[j].action # "create"

Promise(t, columns, vals) ==
  mine' = [mine EXCEPT ![t] = [c \in Columns |->
             IF c \notin columns THEN @[c] ELSE IF Overtaken(t, c) THEN Null ELSE vals[c]]]

NextOp(at) == op' = [op EXCEPT !.at = at]

(* What a call does when it gets no answer, which for _isConnectivityError *)
(* is also one of at least 500.                                            *)
AfterNoAnswer == NextOp(IF op.action = "status_update" THEN "queue" ELSE "keep")

SendCreate ==
  LET t == offline_id(op.id)
      item == Created(t, op.row.vals)
      made == /\ server' = Append(server, item)
              /\ UNCHANGED <<local, answers>>
  IN  /\ op.at = "send" /\ op.action = "create"
      /\ \/ /\ Answered /\ made /\ Promise(t, Columns, item.vals)
            /\ op' = [op EXCEPT !.at = "cache", !.id = Len(server) + 1, !.row = Row(item.vals, 1)]
            /\ UNCHANGED doubled
         \/ Lost /\ made /\ AfterNoAnswer /\ doubled' = doubled \cup {t} /\ UNCHANGED mine
         \/ Unsent /\ AfterNoAnswer /\ UNCHANGED <<server, answers, local, mine, doubled>>
      /\ UNCHANGED <<queue, undated, online, fl, sy, theirs, touched, resent, ops, others>>

SendChange ==
  LET code == Code(op.id, op.row.version)
      item == Applied(op.id, op.action, op.row.vals)
      carried == server' = IF code = "200" THEN [server EXCEPT ![op.id] = item] ELSE server
  IN  /\ op.at = "send" /\ op.action # "create"
      /\ \/ /\ Answered /\ carried
            /\ IF code = "200"
               THEN /\ op' = [op EXCEPT !.at = "cache", !.row = Row(item.vals, item.version)]
                    /\ Promise(Thing(op.id), op.dirty, item.vals)
               ELSE /\ IF op.action = "status_update" THEN NextOp("revert") ELSE op' = NoOp
                    /\ UNCHANGED mine
         \/ Lost /\ carried /\ AfterNoAnswer /\ UNCHANGED mine
         \/ Unsent /\ AfterNoAnswer /\ UNCHANGED <<server, mine>>
      /\ UNCHANGED <<answers, local, queue, undated, online, fl, sy, theirs, touched, doubled, resent, ops, others>>

_cacheItems ==
  /\ op.at = "cache" /\ local' = With(local, op.id, op.row) /\ op' = NoOp
  /\ UNCHANGED <<server, answers, queue, undated, online, fl, sy, history, ops, others, trouble>>

RevertStatus ==
  /\ op.at = "revert" /\ op' = NoOp
  /\ local' = IF op.id \in DOMAIN local
              THEN [local EXCEPT ![op.id].vals["status"] = op.base.vals["status"]] ELSE local
  /\ UNCHANGED <<server, answers, queue, undated, online, fl, sy, history, ops, others, trouble>>

(* The form is kept as the new local item, over the one there is by now.   *)
(* A new item whose form names no date gets the hour of a week from now.   *)
KeepLocally ==
  /\ op.at = "keep"
  /\ undated' \in {undated} \cup (IF op.action = "create" THEN {undated \cup {Thing(op.id)}} ELSE {})
  /\ IF op.action = "update" /\ op.id \notin getAllItems
     THEN op' = NoOp /\ UNCHANGED <<local, mine, theirs>>
     ELSE LET base == IF op.action = "update" THEN local[op.id] ELSE op.row
              row == [op.row EXCEPT !.vals["status"] = base.vals["status"]]
              dirty == IF op.action = "update" THEN Changed(base.vals, row.vals) ELSE op.dirty
          IN  /\ op' = [op EXCEPT !.at = "queue", !.row = row, !.base = base, !.dirty = dirty]
              /\ local' = With(local, op.id, row)
              /\ mine' = Forget(mine, Thing(op.id), dirty)
              /\ theirs' = Forget(theirs, Thing(op.id), dirty)
  /\ UNCHANGED <<server, answers, queue, online, fl, sy, touched, doubled, resent, ops, others, trouble>>

(* What a column will be when what is pending before the k-th mutation is  *)
(* done, and whether all of it builds on one another.                      *)
Before(t, c, k) ==
  LET js == {j \in Writes(t, c) : j < k}
  IN  IF js # {} THEN queue[Max(js)].vals[c]
      ELSE IF t \in Made THEN server[CHOOSE i \in DOMAIN server : server[i].thing = t].vals[c] ELSE Null

BuildsOn(t, c, base) ==
  /\ base = Before(t, c, Len(queue) + 1)
  /\ \A k \in Writes(t, c) : queue[k].action = "create" \/ queue[k].base[c] = Before(t, c, k)

(* A mutation carries the whole item.  It is promised if it is made to     *)
(* what everything pending leaves: a merge takes the server's value for    *)
(* another member's, even where it is the user's own and the table is      *)
(* behind.  What a form behind another mutation has of other fields, it    *)
(* may write over what was promised of them.                               *)
_enqueue ==
  LET t == Thing(op.id)
      m == [action |-> op.action, id |-> op.id, key |-> t, vals |-> op.row.vals,
            base |-> op.base.vals, dirty |-> IF op.action = "create" THEN {} ELSE op.dirty,
            version |-> op.row.version]
      Kept(c) == IF c \in op.dirty THEN op.action = "create" \/ BuildsOn(t, c, m.base[c])
                 ELSE PendingOf(t) = {} \/ c \notin SetBy(m.action) \/ m.vals[c] = mine[t][c]
  IN  /\ op.at = "queue" /\ op' = NoOp /\ queue' = Append(queue, m)
      /\ mine' = [mine EXCEPT ![t] = [c \in Columns |->
                    IF ~ Kept(c) THEN Null ELSE IF c \in op.dirty THEN m.vals[c] ELSE @[c]]]
      /\ resent' = IF m.action = "update" /\ (\E k \in PendingOf(t) : queue[k].action # "create")
                   THEN resent \cup {t} ELSE resent
      /\ UNCHANGED <<server, answers, local, undated, online, fl, sy, theirs, touched, doubled, ops, others, trouble>>

OpStep == SendCreate \/ SendChange \/ _cacheItems \/ RevertStatus \/ KeepLocally \/ _enqueue

----------------------------------------------------------------------------
(* The flush: the first mutation of the queue, again and again.            *)
FlushEnds == fl' = NoFlush
NextFlush(at) == fl' = [fl EXCEPT !.at = at]

(* A flush of an empty queue does nothing.                                 *)
flushPendingMutations ==
  /\ fl.at = "off" /\ queue # <<>> /\ fl' = [NoFlush EXCEPT !.at = "send"]
  /\ UNCHANGED <<server, answers, local, queue, undated, online, op, sy, history, ops, others, trouble>>

FlushedAll ==
  /\ fl.at = "send" /\ queue = <<>> /\ FlushEnds
  /\ UNCHANGED <<server, answers, local, queue, undated, online, op, sy, history, ops, others, trouble>>

(* Slip: a queued creation is sent without its key.                        *)
WithoutKey(key) == FALSE

(* A key the server has answered before is answered the same again.        *)
Known(key) == key \in DOMAIN answers

(* What a form has of other fields, if it was made after its item and is   *)
(* set back to the version of the creation, which is sent again.           *)
SetBack(k) ==
  {c \in Fields \ queue[k].dirty : queue[k].action = "update" /\ queue[k].version # 1}

FlushCreate ==
  LET m == Head(queue)
      todo == {k \in DOMAIN queue : queue[k].id = m.id}
      known == Known(m.key)
      id == IF known THEN answers[m.key].id ELSE Len(server) + 1
      row == IF known THEN answers[m.key].row ELSE Row(Created(m.key, m.vals).vals, 1)
      carried == /\ server' = IF known THEN server ELSE Append(server, Created(m.key, m.vals))
                 /\ answers' = With(answers, m.key, [id |-> id, row |-> row])
  IN  /\ fl.at = "send" /\ queue # <<>> /\ m.action = "create" /\ m.key \notin undated
      /\ \/ /\ Answered /\ carried
            /\ fl' = [at |-> "retarget", from |-> m.id, got |-> id, row |-> row, todo |-> todo]
            /\ touched' = touched \cup {<<m.key, c>> : c \in UNION {SetBack(k) : k \in todo}}
         \/ Lost /\ carried /\ FlushEnds /\ UNCHANGED touched
         \/ Unsent /\ FlushEnds /\ UNCHANGED <<server, answers, touched>>
      /\ UNCHANGED <<local, queue, undated, online, op, sy, mine, theirs, doubled, resent, ops, others>>

(* The server commits the new item and then fails, or dies, before it has  *)
(* stored its answer under the key.                                        *)
AnswerNotStored ==
  LET m == Head(queue)
  IN  /\ fl.at = "send" /\ queue # <<>> /\ m.action = "create" /\ m.key \notin undated
      /\ ~ Known(m.key) /\ Lost /\ FlushEnds
      /\ server' = Append(server, Created(m.key, m.vals)) /\ doubled' = doubled \cup {m.key}
      /\ UNCHANGED <<answers, local, queue, undated, online, op, sy, mine, theirs, touched, resent, ops, others>>

(* Slip: a refused mutation stays.                                         *)
KeepRefused == FlushEnds

DropRefused == NextFlush("pop")

(* A time of day is no date for the server: it refuses the form, and the   *)
(* creation goes the way of every refused mutation.                        *)
RefuseCreate ==
  LET m == Head(queue)
  IN  /\ fl.at = "send" /\ queue # <<>> /\ m.action = "create" /\ m.key \in undated
      /\ \/ Answered /\ DropRefused
         \/ (Lost \/ Unsent) /\ FlushEnds
      /\ UNCHANGED <<server, answers, local, queue, undated, online, op, sy, history, ops, others>>

(* One row of the queue after the other.                                   *)
_retargetPendingMutations ==
  /\ fl.at = "retarget"
  /\ LET k == Min(fl.todo)
     IN  /\ queue' = [queue EXCEPT ![k].id = fl.got,
                        ![k].version = IF queue[k].action = "create" THEN @ ELSE fl.row.version]
         /\ fl' = [fl EXCEPT !.todo = @ \ {k}, !.at = IF fl.todo = {k} THEN "drop" ELSE @]
  /\ UNCHANGED <<server, answers, local, undated, online, op, sy, history, ops, others, trouble>>

DropLocal ==
  /\ fl.at = "drop" /\ local' = Without(local, {fl.from}) /\ NextFlush("put")
  /\ UNCHANGED <<server, answers, queue, undated, online, op, sy, history, ops, others, trouble>>

(* Slip: the form is sent as it is.                                        *)
ClientWins(theirItem, myItem, base, dirty) == myItem

(* ConflictResolver.resolve: a column of the user's whose server value is  *)
(* still the one the user started from.                                    *)
resolve(theirItem, myItem, base, dirty) ==
  [c \in Columns |-> IF c \in dirty /\ theirItem[c] = base[c] THEN myItem[c] ELSE theirItem[c]]

(* The head of the queue is sent as it is, then, after a conflict, merged. *)
_applyWithConflictResolution ==
  LET m == Head(queue)
      again == fl.at = "resend"
      vals == IF again THEN resolve(fl.row.vals, m.vals, m.base, m.dirty) ELSE m.vals
      code == Code(m.id, IF again THEN fl.row.version ELSE m.version)
      item == Applied(m.id, m.action, vals)
      carried == server' = IF code = "200" THEN [server EXCEPT ![m.id] = item] ELSE server
  IN  /\ fl.at \in {"send", "resend"} /\ queue # <<>> /\ m.action # "create"
      /\ \/ /\ Answered /\ carried
            /\ CASE code = "200" -> fl' = [at |-> "rebase", from |-> m.id, got |-> m.id,
                                           row |-> Row(item.vals, item.version),
                                           todo |-> {k \in DOMAIN queue : queue[k].id = m.id
                                                       /\ queue[k].action # "create"}]
                 [] code = "409" -> IF again THEN FlushEnds ELSE NextFlush("fetch")
                 [] OTHER -> DropRefused
         \/ Lost /\ carried /\ FlushEnds
         \/ Unsent /\ FlushEnds /\ UNCHANGED server
      /\ UNCHANGED <<answers, local, queue, undated, online, op, sy, history, ops, others>>

(* An item that is not listed stops the flush.                             *)
_fetchServerItem ==
  LET i == Head(queue).id
  IN  /\ fl.at = "fetch"
      /\ \/ /\ Answered
            /\ IF i \in Listed
               THEN fl' = [fl EXCEPT !.at = "resend", !.row = Row(server[i].vals, server[i].version)]
               ELSE FlushEnds
         \/ (Lost \/ Unsent) /\ FlushEnds
      /\ UNCHANGED <<server, answers, local, queue, undated, online, op, sy, history, ops, others>>

_rebasePendingMutations ==
  /\ fl.at = "rebase"
  /\ LET k == Min(fl.todo)
     IN  /\ queue' = [queue EXCEPT ![k].version = fl.row.version]
         /\ fl' = [fl EXCEPT !.todo = @ \ {k}, !.at = IF fl.todo = {k} THEN "put" ELSE @]
  /\ UNCHANGED <<server, answers, local, undated, online, op, sy, history, ops, others, trouble>>

PutSynced ==
  /\ fl.at = "put" /\ local' = With(local, fl.got, fl.row) /\ NextFlush("pop")
  /\ UNCHANGED <<server, answers, queue, undated, online, op, sy, history, ops, others, trouble>>

(* Slip: without its continue, the loop goes on to the deletion below.     *)
DeleteTwice ==
  /\ fl.at = "pop" /\ queue' = Tail(queue) /\ NextFlush("pop")
  /\ UNCHANGED <<server, answers, local, undated, online, op, sy, history, ops, others, trouble>>

(* What a change that is refused for its local id has changed is promised  *)
(* no longer.                                                              *)
_deleteMutation ==
  LET m == Head(queue)
      i == m.id
  IN  /\ fl.at = "pop" /\ queue' = Tail(queue) /\ fl' = [NoFlush EXCEPT !.at = "send"]
      /\ mine' = IF i < 0 /\ m.action # "create" THEN Forget(mine, Thing(i), Columns) ELSE mine
      /\ UNCHANGED <<server, answers, local, undated, online, op, sy, theirs, touched, doubled, resent, ops, others, trouble>>

FlushStep == FlushedAll \/ FlushCreate \/ AnswerNotStored \/ RefuseCreate \/ _retargetPendingMutations \/ DropLocal
               \/ _applyWithConflictResolution \/ _fetchServerItem \/ _rebasePendingMutations
               \/ PutSynced \/ _deleteMutation

----------------------------------------------------------------------------
(* A synchronisation.                                                      *)
NextSync(at) == sy' = [sy EXCEPT !.at = at]

(* It waits for the flush it starts, but not for one that runs already;    *)
(* then it sees what is pending.                                           *)
syncInventoryItems ==
  /\ sy.at = "idle"
  /\ IF fl.at = "off" /\ queue # <<>>
     THEN fl' = [NoFlush EXCEPT !.at = "send"] /\ NextSync("flush")
     ELSE sy' = [sy EXCEPT !.at = "get", !.remaining = queue] /\ UNCHANGED fl
  /\ UNCHANGED <<server, answers, local, queue, undated, online, op, history, ops, others, trouble>>

SeePending ==
  /\ sy.at = "flush" /\ fl.at = "off"
  /\ sy' = [sy EXCEPT !.at = "get", !.remaining = queue]
  /\ UNCHANGED <<server, answers, local, queue, undated, online, op, fl, history, ops, others, trouble>>

GetItems ==
  /\ sy.at = "get"
  /\ \/ /\ Answered
        /\ sy' = [sy EXCEPT !.at = "replace",
                    !.remote = [i \in Listed |-> Row(server[i].vals, server[i].version)]]
     \/ (Lost \/ Unsent) /\ sy' = NoSync
  /\ UNCHANGED <<server, answers, local, queue, undated, online, op, fl, history, ops, others>>

(* Slip: the server's items are put over what is there.                    *)
NotEmptied(table) == table

Emptied(table) == <<>>

(* The table is remembered and emptied, then filled with the server's      *)
(* items and the pending mutations: what is written before is lost from    *)
(* it, and a form kept in between does not find its item.                  *)
clearAll ==
  /\ sy.at = "replace" /\ local' = Emptied(local)
  /\ sy' = [sy EXCEPT !.at = "fill",
              !.snapshot = IF sy.remaining = <<>> THEN <<>> ELSE [i \in getAllItems |-> local[i]]]
  /\ UNCHANGED <<server, answers, queue, undated, online, op, fl, history, ops, others, trouble>>

(* What one pending mutation makes of the new table.                       *)
Reapplied(table, m) ==
  CASE m.action = "create" ->
         With(table, m.id, IF m.id \in DOMAIN sy.snapshot THEN sy.snapshot[m.id] ELSE Row(m.vals, 1))
    [] m.action = "update" ->
         IF m.id \in DOMAIN sy.snapshot THEN With(table, m.id, sy.snapshot[m.id]) ELSE table
    [] OTHER ->
         IF m.id \in DOMAIN table THEN [table EXCEPT ![m.id].vals["status"] = m.vals["status"]] ELSE table

_replaceCache ==
  /\ sy.at = "fill" /\ sy' = NoSync
  /\ LET filled == [i \in DOMAIN local \cup DOMAIN sy.remote |->
                      IF i \in DOMAIN sy.remote THEN sy.remote[i] ELSE local[i]]
     IN  local' = FoldLeft(Reapplied, filled, sy.remaining)
  /\ UNCHANGED <<server, answers, queue, undated, online, op, fl, history, ops, others, trouble>>

SyncStep == syncInventoryItems \/ SeePending \/ GetItems \/ clearAll \/ _replaceCache

----------------------------------------------------------------------------
(* Other members, the connection and the app.                              *)
BeingChanged(t, c) ==
  \/ op.at # "idle" /\ Thing(op.id) = t /\ c \in op.dirty
  \/ \E k \in DOMAIN queue : Thing(queue[k].id) = t /\ c \in queue[k].dirty

OtherChanges(i, c, v) ==
  /\ others < MaxOthers /\ Eventful /\ others' = others + 1
  /\ server[i].vals["status"] # "gone" /\ v # server[i].vals[c]
  /\ server' = [server EXCEPT ![i].vals[c] = v, ![i].version = @ + 1]
  /\ LET t == server[i].thing
     IN  /\ touched' = touched \cup {<<t, c>>}
         /\ theirs' = [theirs EXCEPT ![t][c] = IF BeingChanged(t, c) THEN Null ELSE v]
  /\ UNCHANGED <<answers, local, queue, undated, online, op, fl, sy, mine, doubled, resent, ops, trouble>>

Others ==
  \E i \in DOMAIN server :
    \/ \E f \in Fields \cap TheirEdits, v \in Values : OtherChanges(i, f, v)
    \/ \E s \in {"frozen", "used", "gone"} \cap TheirEdits : OtherChanges(i, "status", s)

Connect ==
  /\ ~ online /\ online' = TRUE
  /\ UNCHANGED <<server, answers, local, queue, undated, op, fl, sy, history, ops, others, trouble>>

Disconnect ==
  /\ online /\ Trouble /\ online' = FALSE
  /\ UNCHANGED <<server, answers, local, queue, undated, op, fl, sy, history, ops, others>>

(* A form that is in the table, from where a later form takes it, but not  *)
(* in the queue, so that it is sent only if there is such a form.          *)
Stranded ==
  {c \in Fields :
     /\ op.at = "queue" /\ op.action = "update" /\ op.id \in DOMAIN server
     /\ op.row.vals[c] # server[op.id].vals[c]
     /\ \A k \in Writes(Thing(op.id), c) :
          queue[k].id = op.id /\ c \in queue[k].dirty => queue[k].vals[c] # op.row.vals[c]}

(* The app ends and starts again, when it removes local items that have    *)
(* been offline for a week.  A form that has been rebased and not removed  *)
(* is sent again as it was.                                                *)
cleanupOrphanedItems ==
  LET again == Carried /\ Head(queue).action # "create"
      t == Thing(Head(queue).id)
      FirstBase(c) == IF Writes(t, c) # {} THEN queue[Min(Writes(t, c))].base[c] ELSE Before(t, c, 1)
  IN  /\ Trouble
      /\ op' = NoOp /\ fl' = NoFlush /\ sy' = NoSync
      /\ \E old \in SUBSET {i \in DOMAIN local : i < 0} : local' = Without(local, old)
      /\ resent' = IF again /\ Head(queue).action = "update" THEN resent \cup {t} ELSE resent
      /\ mine' = IF again
                 THEN Forget(mine, t, {c \in SetBy(Head(queue).action) : Head(queue).vals[c] # FirstBase(c)})
                 ELSE mine
      /\ touched' = touched \cup {<<Thing(op.id), c>> : c \in Stranded}
      /\ UNCHANGED <<server, answers, queue, undated, online, theirs, doubled, ops, others>>

Next ==
  \/ createInventoryItem \/ updateItem \/ updateItemStatus \/ OpStep
  \/ flushPendingMutations \/ FlushStep \/ SyncStep
  \/ Others \/ Connect \/ Disconnect \/ cleanupOrphanedItems

(* The event loop runs every call on, the connection comes back, and the   *)
(* app, which synchronises whenever its list is opened or refreshed, is    *)
(* used again and again.                                                   *)
Spec ==
  /\ Init /\ [][Next]_vars
  /\ WF_vars(OpStep) /\ WF_vars(FlushStep) /\ WF_vars(SyncStep) /\ WF_vars(Connect)

----------------------------------------------------------------------------
AllVals == [Columns -> Values \cup {"active", "frozen", "used", "gone"}]
Rows == [vals : AllVals, version : Nat \ {0}]
Actions == {"create", "update", "status_update"}

Mutations == [action : Actions, id : Int, key : 0..ops, vals : AllVals, base : AllVals,
              dirty : SUBSET Columns, version : Nat \ {0}]

(* What the app may take for an item: one of the server's, or one it made. *)
IsId(i) == i \in DOMAIN server \/ i \in {offline_id(t) : t \in 1..ops}

IsTable(table) == \A i \in DOMAIN table : IsId(i) /\ table[i] \in Rows

IsQueue(ms) == ms \in Seq(Mutations) /\ \A k \in DOMAIN ms : IsId(ms[k].id)

ServerOK ==
  /\ ops \in 0..MaxOps
  /\ server \in Seq([thing : 0..ops, vals : AllVals, version : Nat \ {0}])

AnswersOK ==
  /\ DOMAIN answers \subseteq Things
  /\ \A t \in DOMAIN answers : answers[t].id \in DOMAIN server /\ answers[t].row \in Rows

OpOK ==
  /\ op \in [at : {"idle", "send", "cache", "revert", "keep", "queue"}, action : Actions \cup {Null},
             id : Int, row : Rows \cup {Null}, base : Rows \cup {Null}, dirty : SUBSET Columns]
  /\ op.at # "idle" => op.action \in Actions /\ op.row \in Rows /\ IsId(op.id)
  /\ op.at \in {"send", "keep", "queue"} /\ op.action = "create" => - op.id \in 1..ops
  /\ op.at \in {"revert", "queue"} => op.base \in Rows
  /\ op.at # "idle" /\ op.action = "status_update" => op.base \in Rows

FlushOK ==
  /\ fl \in [at : {"off", "send", "retarget", "drop", "fetch", "resend", "rebase", "put", "pop"},
             from : Int, got : Int, row : Rows \cup {Null}, todo : SUBSET Nat]
  /\ fl.at # "off" => fl.todo \subseteq DOMAIN queue
  /\ fl.at \notin {"off", "send"} => queue # <<>>
  /\ fl.at \in {"retarget", "rebase"} => fl.todo # {}
  /\ fl.at \in {"retarget", "drop", "resend", "rebase", "put"} => fl.row \in Rows
  /\ fl.at \in {"retarget", "drop", "rebase", "put"} => fl.got \in DOMAIN server

SyncOK ==
  /\ DOMAIN sy = {"at", "remaining", "remote", "snapshot"}
  /\ sy.at \in {"idle", "flush", "get", "replace", "fill"}
  /\ IsQueue(sy.remaining) /\ IsTable(sy.remote) /\ IsTable(sy.snapshot)

TypeOK ==
  ServerOK /\ AnswersOK /\ undated \subseteq 1..ops /\ IsTable(local) /\ IsQueue(queue) /\ OpOK /\ FlushOK /\ SyncOK

(* Each creation makes one item, though the app may end between any two    *)
(* steps and send it again, and its answer may be lost.  Two cases are     *)
(* excepted, in which the item is made and nothing under the key of the    *)
(* next attempt tells so: the answer to the first attempt is lost, after   *)
(* which the creation is queued under another key, and the server fails    *)
(* between its commit and the storing of its answer.                       *)
CreatedOnce ==
  \A t \in Things \ doubled : Cardinality({i \in DOMAIN server : server[i].thing = t}) <= 1

(* The invariant behind CreatedOnce: a creation that is under way or in    *)
(* the queue, and has no answer yet, has not made its item either.         *)
Pending == {queue[k].key : k \in {j \in DOMAIN queue : queue[j].action = "create"}}
Creating == op.at \in {"send", "keep", "queue"} /\ op.action = "create"

CreationsInv ==
  /\ Pending \cap Made \subseteq DOMAIN answers \cup doubled
  /\ Creating => - op.id \notin Pending /\ - op.id \notin Made \ doubled

Settled(t) == /\ op.at = "idle" \/ Thing(op.id) # t
              /\ \A k \in DOMAIN queue : Thing(queue[k].id) # t

(* What a creation promised is on the server or still in the queue: no     *)
(* creation is lost, but for one whose form named no date, which the       *)
(* server refuses once it comes from the queue.                            *)
CreationsAreKept ==
  \A t \in Things, c \in Columns : mine[t][c] # Null => t \in Made \cup Pending \cup undated

(* The last value the user gave is the server's once nothing of the item   *)
(* is pending, whatever was sent at once, queued, merged and sent again:   *)
(* unless another member has changed that column, the server refused the   *)
(* mutation because it still had the local id, the app ended with the form *)
(* in the table but not in the queue, a form was set back to the version   *)
(* of a creation that is sent again, or it was not made to what the        *)
(* pending mutations leave, which is not promised.                         *)
LastWriteWins ==
  \A i \in DOMAIN server : \A c \in Columns :
    LET t == server[i].thing
    IN  /\ Settled(t) /\ t \notin doubled /\ <<t, c>> \notin touched
        /\ mine[t][c] # Null /\ server[i].vals["status"] # "gone"
        => server[i].vals[c] = mine[t][c]

(* What another member has changed and the user has not stays as it is,    *)
(* for a mutation is merged when its version is no longer the server's;    *)
(* but a form behind another mutation of its item, or sent again after it  *)
(* was rebased, has the version of what it has never seen.                 *)
OthersAreKept ==
  \A i \in DOMAIN server : \A c \in Columns :
    LET t == server[i].thing
    IN  t \notin doubled \cup resent /\ theirs[t][c] # Null => server[i].vals[c] = theirs[t][c]

(* Neither the user's creations and edits nor the edits of others are      *)
(* lost, by a refusal, a retry or a merge.                                 *)
EditsAreKept == CreationsAreKept /\ LastWriteWins /\ OthersAreKept

(* The queue drains once the connection lasts, whatever the server has     *)
(* refused meanwhile; only a conflict about an item that is used, by the   *)
(* lost first attempt or by another member, stops every flush.             *)
UsedUp(i) == i \in DOMAIN server /\ server[i].vals["status"] = "used"

QueueDrains ==
  <>[](queue = <<>> \/ UsedUp(Head(queue).id))

(* In the end the app shows what the server lists, whatever the flush, the *)
(* user and a synchronisation have written into the local table.           *)
ViewConverges ==
  <>[](queue = <<>> /\ sy.at # "fill" => local = [i \in Listed |-> Row(server[i].vals, server[i].version)])
=============================================================================
