----------------------- MODULE OfflineSyncInvariants -----------------------
(* The inductive invariant of OfflineSync, in named parts, and the words   *)
(* in which its steps are described.  CreationsOK says what becomes of     *)
(* creations, SyncInv that what the app holds is never ahead of the        *)
(* server, TheirsInv what becomes of the values that others gave,          *)
(* PromisesInv what becomes of those that were promised to the user.       *)
(* OfflineSyncProofs proves them.                                          *)
EXTENDS OfflineSync

(* An item is made once, but for a creation that was queued twice.        *)
MadeOnce ==
  \A i, j \in DOMAIN server :
    server[i].thing = server[j].thing /\ server[i].thing \notin doubled => i = j

(* A creation that is kept without a date is refused whenever it is sent:  *)
(* its item is made only if the first attempt, before it was kept, did so. *)
UndatedInv ==
  /\ undated \cap Made \subseteq doubled
  /\ op.at \in {"send", "keep"} /\ op.action = "create" => - op.id \notin undated

CreationsOK == MadeOnce /\ CreationsInv /\ UndatedInv

(* A step that creates nothing, neither an item nor a creation.            *)
CallKept == Creating' => Creating /\ op'.id = op.id /\ (op.at = "queue" => op'.at = "queue")

(* What a step does to the server: nothing, a change of some columns of an *)
(* item, which has the next version then, or a new item.                   *)
ItemsKept == /\ DOMAIN server' = DOMAIN server
             /\ \A i \in DOMAIN server : server'[i].thing = server[i].thing

Alters(i, set, vals) ==
  /\ i \in DOMAIN server /\ ItemsKept /\ server[i].vals["status"] # "gone"
  /\ \A j \in DOMAIN server : j # i => server'[j] = server[j]
  /\ server'[i].version = server[i].version + 1
  /\ \A c \in Columns : server'[i].vals[c] = IF c \in set THEN vals[c] ELSE server[i].vals[c]

Makes(n, t, vals) ==
  /\ DOMAIN server' = DOMAIN server \cup {n} /\ n \notin DOMAIN server /\ n \in Nat \ {0}
  /\ \A i \in DOMAIN server : server'[i] = server[i]
  /\ server'[n] = Created(t, vals)

Later ==
  /\ undated \subseteq undated'
  /\ \A i \in DOMAIN server :
       /\ i \in DOMAIN server' /\ server'[i].thing = server[i].thing
       /\ server'[i] = server[i] \/ server[i].version < server'[i].version
       /\ server[i].vals["status"] = "gone" => server'[i].vals["status"] = "gone"

SetOf(action) == IF action = "update" THEN Fields ELSE {"status"}

(* A mutation as it was, but for its id and its version.                   *)
Readdressed(m, n, id, version) ==
  /\ n.id = id /\ n.version = version /\ n.action = m.action /\ n.key = m.key
  /\ n.vals = m.vals /\ n.base = m.base /\ n.dirty = m.dirty

FlushOff == fl' = NoFlush \/ fl' = [NoFlush EXCEPT !.at = "send"]

---------------------------------------------------------------------------
(* What the rows that the app holds have to do with the server's: none is  *)
(* ahead of it, and those the server has sent are what it had then.  Items *)
(* it does not know have the version 1.                                    *)
NotAhead(i, row) == IF i \in DOMAIN server THEN row.version \in 1..server[i].version ELSE row.version = 1

Fresh(i, row) == i \in DOMAIN server /\ row.version = server[i].version

Honest(i, row) ==
  i \in DOMAIN server /\ row.version \in 1..server[i].version /\ (Fresh(i, row) => row.vals = server[i].vals)

Calling == op.at \in {"send", "keep", "queue"}

OpInv ==
  /\ op.at # "idle" /\ op.action = "status_update" => op.dirty = {"status"} /\ op.at # "keep"
  /\ Calling => NotAhead(op.id, op.row)
  /\ Calling /\ op.action = "create" =>
       op.row.vals["status"] = "active" /\ op.row.version = 1 /\ op.dirty = Columns
  /\ Calling /\ op.action = "update" => op.dirty \subseteq Fields
  /\ op.at = "queue" /\ op.action = "update" => op.dirty = {c \in Fields : op.base.vals[c] # op.row.vals[c]}
  /\ op.at = "cache" => Honest(op.id, op.row)

RowsInv ==
  /\ \A i \in DOMAIN local : NotAhead(i, local[i])
  /\ \A i \in DOMAIN sy.snapshot : NotAhead(i, sy.snapshot[i])
  /\ \A i \in DOMAIN sy.remote : Honest(i, sy.remote[i])

AnswersInv ==
  \A t \in DOMAIN answers :
    Honest(answers[t].id, answers[t].row) /\ answers[t].row.version = 1 /\ server[answers[t].id].thing = t

MutationOK(m) ==
  /\ m.key = Thing(m.id) /\ NotAhead(m.id, m)
  /\ m.action = "create" => m.dirty = {} /\ m.vals["status"] = "active" /\ m.version = 1
  /\ m.action = "status_update" => m.dirty = {"status"}
  /\ m.action = "update" => m.dirty = {c \in Fields : m.base[c] # m.vals[c]}

QueueInv ==
  /\ \A k \in DOMAIN queue : MutationOK(queue[k])
  /\ \A j, k \in DOMAIN queue :
       queue[j].action = "create" /\ queue[k].action = "create" /\ queue[j].key = queue[k].key => j = k

(* What the flush knows of the head of the queue and of what is behind it. *)
FlushInv ==
  /\ fl.at \in {"retarget", "drop", "put", "rebase"} => Honest(fl.got, fl.row)
  /\ fl.at \in {"retarget", "drop"} => queue[1].action = "create" /\ fl.row.version = 1
  /\ fl.at = "retarget" => /\ Thing(fl.from) = server[fl.got].thing
                           /\ 1 \in fl.todo \/ queue[1].id = fl.got
                           /\ \A k \in fl.todo : queue[k].id = fl.from
  /\ fl.at \in {"drop", "put", "rebase"} => queue[1].id = fl.got
  /\ fl.at = "rebase" => /\ queue[1].action # "create"
                         /\ \A k \in fl.todo : queue[k].id = fl.got /\ queue[k].action # "create"
  /\ fl.at \in {"fetch", "resend"} => /\ queue[1].action # "create" /\ queue[1].id \in DOMAIN server
                                      /\ queue[1].version < server[queue[1].id].version
  /\ fl.at = "resend" => Honest(queue[1].id, fl.row)
  /\ fl.at = "pop" /\ queue[1].action = "create" => queue[1].id \in DOMAIN server \/ queue[1].key \in undated

(* A form behind another mutation of its item.                             *)
ResentInv ==
  \A j, k \in DOMAIN queue :
    /\ j < k /\ Thing(queue[j].id) = Thing(queue[k].id)
    /\ queue[j].action # "create" /\ queue[k].action = "update"
    => Thing(queue[k].id) \in resent

SyncInv == OpInv /\ RowsInv /\ AnswersInv /\ QueueInv /\ FlushInv /\ ResentInv

(* A row with another value in one column.                                 *)
Varies(new, old, f, v) ==
  /\ new.version = old.version
  /\ \A c \in Columns : new.vals[c] = IF c = f THEN v ELSE old.vals[c]

(* What a table shows of a field of an item, if it has it at a version;    *)
(* and what one has that is filled with pending mutations.                 *)
Shown(T, i, c, n, P) == i \in DOMAIN T /\ T[i].version = n => T[i].vals[c] \in P

(* Not ahead, and honest, after the step.                                  *)
StaysBehind(i, row) ==
  IF i \in DOMAIN server' THEN row.version \in 1..server'[i].version ELSE row.version = 1

StaysHonest(i, row) ==
  /\ i \in DOMAIN server' /\ row.version \in 1..server'[i].version
  /\ row.version = server'[i].version => row.vals = server'[i].vals

---------------------------------------------------------------------------
(* The histories: what a step makes of what was promised and of what the   *)
(* others gave.                                                            *)
HistoryVals == Values \cup {"active", "frozen", "used", "gone", Null}
Histories == [Things -> [Columns -> HistoryVals]]

(* What others gave is of an item there is.                                *)
TheirsMade ==
  /\ theirs \in Histories
  /\ \A t \in Things, c \in Columns : theirs[t][c] # Null => t \in Made

(* What others gave is kept: every row that might be sent as it is, for it *)
(* has the version of the item, shows what the item has.                   *)
Shows(row, i, c) == row.version = server[i].version => row.vals[c] = server[i].vals[c]
StillShows(row, i, c) == row.version = server'[i].version => row.vals[c] = server'[i].vals[c]

OpShows(i, c) ==
  /\ op.at # "idle" /\ Thing(op.id) = server[i].thing => c \notin op.dirty
  /\ c \in Fields /\ Calling /\ op.action = "update" /\ op.id = i => Shows(op.row, i, c)

QueueShows(i, c) ==
  \A k \in DOMAIN queue :
    /\ Thing(queue[k].id) = server[i].thing => c \notin queue[k].dirty
    /\ c \in Fields /\ queue[k].action = "update" /\ queue[k].id = i /\ (Carried => k # 1) => Shows(queue[k], i, c)

TablesShow(i, c) ==
  c \in Fields =>
    /\ i \in DOMAIN local => Shows(local[i], i, c)
    /\ i \in DOMAIN sy.snapshot => Shows(sy.snapshot[i], i, c)

TheirsAre(i, c) ==
  /\ server[i].vals[c] = theirs[server[i].thing][c] /\ server[i].version > 1
  /\ OpShows(i, c) /\ QueueShows(i, c) /\ TablesShow(i, c)

TheirsInv ==
  \A i \in DOMAIN server : \A c \in Columns :
    server[i].thing \notin doubled \cup resent /\ theirs[server[i].thing][c] # Null => TheirsAre(i, c)

---------------------------------------------------------------------------
(* Chains of mutations: what one gives is what the next one starts from,   *)
(* and the last one gives what was promised.                               *)
FirstOf(L, k) == k \in L /\ \A j \in L : k <= j
LastOf(L, k) == k \in L /\ \A j \in L : j <= k
Adjacent(L, j, k) == j \in L /\ k \in L /\ j < k /\ \A l \in L : l <= j \/ k <= l

IsChain(L, B, V, e) ==
  /\ \A j, k \in L : Adjacent(L, j, k) => B[k] = V[j]
  /\ \A k \in L : LastOf(L, k) => V[k] = e

(* Values a column may have for the chain to bring it to what was promised.*)
Fits(L, B, V, e, v) ==
  \/ L = {} /\ v = e
  \/ \E k \in L : v = V[k] \/ (FirstOf(L, k) /\ v = B[k])

(* What a promise is about.  A mutation with a local id is refused, unless *)
(* its creation is before it or is giving it the server's id.              *)
Gone(t) == \E i \in DOMAIN server : server[i].thing = t /\ server[i].vals["status"] = "gone"

Refused(k) ==
  /\ queue[k].id < 0 /\ queue[k].action # "create"
  /\ \A j \in DOMAIN queue : j < k /\ queue[j].action = "create" => queue[j].id # queue[k].id
  /\ fl.at = "retarget" => k \notin fl.todo

Doomed(t) == \E k \in PendingOf(t) : Refused(k)

Promised(t, c) ==
  mine[t][c] # Null /\ t \notin doubled \cup undated /\ <<t, c>> \notin touched /\ ~ Doomed(t) /\ ~ Gone(t)

(* Steps of the queue, of the server, or of what the flush carries.        *)
Moving ==
  \/ SendCreate \/ SendChange \/ _enqueue \/ FlushCreate \/ AnswerNotStored \/ RefuseCreate
  \/ _retargetPendingMutations \/ DropLocal \/ _applyWithConflictResolution \/ _rebasePendingMutations
  \/ _deleteMutation \/ Others \/ cleanupOrphanedItems

(* What is pending of a column makes a chain, from the server's value to   *)
(* what was promised; but not a form that is merged because its version is *)
(* behind, and does not change the column: it leaves it to the server.     *)
Alone(t, k) == \A j \in PendingOf(t) : j < k => queue[j].action = "create"
Merges(t, k) == \E i \in DOMAIN server : server[i].thing = t /\ queue[k].version < server[i].version
Bystander(t, k, c) == queue[k].action # "create" /\ c \notin queue[k].dirty /\ Alone(t, k) /\ Merges(t, k)

Links(t, c) == {k \in Writes(t, c) : ~ Bystander(t, k, c)}
Bases(c) == [k \in DOMAIN queue |-> queue[k].base[c]]
Vals(c) == [k \in DOMAIN queue |-> queue[k].vals[c]]

ChainOf(t, c) ==
  /\ IsChain(Links(t, c), Bases(c), Vals(c), mine[t][c])
  /\ \A i \in DOMAIN server :
       server[i].thing = t => Fits(Links(t, c), Bases(c), Vals(c), mine[t][c], server[i].vals[c])
  /\ t \notin Made => \E k \in Links(t, c) : FirstOf(Links(t, c), k) /\ queue[k].action = "create"

Chains == \A t \in Things, c \in Columns : Promised(t, c) => ChainOf(t, c)

(* The links that are no bystanders after a step of the server.            *)
StillLinks(t, c) == {k \in Links(t, c) : ~ Bystander(t, k, c)'}

---------------------------------------------------------------------------
(* What the app knows of a field: the server's value, or one that it has   *)
(* queued.  It is excused if others, or a form it lost, have changed it.   *)
Knows(i, c, v) ==
  \/ v = server[i].vals[c]
  \/ \E k \in Writes(server[i].thing, c) :
        /\ queue[k].id = i /\ queue[k].vals[c] = v
        /\ c \in queue[k].dirty \/ queue[k].version = server[i].version

Excused(i, c) ==
  <<server[i].thing, c>> \in touched \/ server[i].thing \in doubled \/ server[i].vals["status"] = "gone"

(* Until a call returns there is no promise for what it changes; what it   *)
(* sends of other fields is what was promised, if it may be sent as it is. *)
OpMine == Calling => \A c \in op.dirty : mine[Thing(op.id)][c] = Null

OpRow ==
  Calling /\ op.action = "update" /\ Fresh(op.id, op.row) =>
    \A c \in Fields : mine[server[op.id].thing][c] = Null \/ Excused(op.id, c) \/ Knows(op.id, c, op.row.vals[c])

(* What the flush has still to do to the mutations behind its own: those   *)
(* of a creation it gives the server's id and version, those of an item a  *)
(* version they did not have.                                              *)
TodoInv ==
  /\ fl.at = "retarget" =>
       /\ \A k \in fl.todo : \A c \in SetBack(k) : <<server[fl.got].thing, c>> \in touched
       /\ server[fl.got].thing \in DOMAIN answers /\ answers[server[fl.got].thing].id = fl.got
  /\ fl.at = "rebase" => \A k \in fl.todo : queue[k].version < fl.row.version

(* What the app knows of an item it goes on knowing while the server's     *)
(* item stays as it is.                                                    *)
HasQueued(n, i, c, v) ==
  /\ n \in DOMAIN queue /\ queue[n].id = i /\ c \in SetBy(queue[n].action) /\ queue[n].action # "create"
  /\ queue[n].vals[c] = v /\ (c \in queue[n].dirty \/ queue[n].version = server[i].version) /\ (Carried => n # 1)

---------------------------------------------------------------------------
(* What a creation has sent is what the server keeps under its key, for it *)
(* is never queued twice with different values.                            *)
Creations ==
  {m \in {queue[k] : k \in DOMAIN queue} \cup {sy.remaining[k] : k \in DOMAIN sy.remaining} : m.action = "create"}

MadeFrom ==
  /\ \A m \in Creations :
       /\ m.key \in DOMAIN answers => m.vals = answers[m.key].row.vals
       /\ ~ (m.id < 0) => m.key \in DOMAIN answers /\ m.id = answers[m.key].id
       /\ Creating => m.key # - op.id
  /\ \A m, n \in Creations : m.key = n.key => m.vals = n.vals
  /\ Creating => - op.id \notin DOMAIN answers

(* What the local tables show of an item that is at the server's version:  *)
(* what the app knows, or what the call is about to queue.                 *)
Awaits(i, c, v) ==
  op.at = "queue" /\ op.action = "update" /\ op.id = i /\ op.row.version = server[i].version /\ op.row.vals[c] = v

Loose(i, c, v) == Knows(i, c, v) \/ Excused(i, c) \/ Awaits(i, c, v)

LooseRows ==
  \A i \in DOMAIN server : \A c \in Fields :
    /\ i \in DOMAIN local /\ local[i].version = server[i].version => Loose(i, c, local[i].vals[c])
    /\ i \in DOMAIN sy.snapshot /\ sy.snapshot[i].version = server[i].version => Loose(i, c, sy.snapshot[i].vals[c])

(* What is known of the promises, of the call, of the queue and of the     *)
(* tables, together.                                                       *)
PromisesInv ==
  mine \in Histories /\ OpMine /\ OpRow /\ TodoInv /\ MadeFrom /\ LooseRows /\ Chains
============================================================================
