----------------------------- MODULE Inventory -----------------------------
(***************************************************************************)
(* The household inventory of the backend: the write requests of           *)
(* /v1/items (create, update, status, delete, undo), each running as a     *)
(* coroutine with a database session of its own.  Every database           *)
(* transaction, every call of the idempotency cache and every publication  *)
(* on the household bus is one step, so the requests of several members    *)
(* interleave between them and a request may die between any two.          *)
(*                                                                         *)
(* What a session has loaded stays as it was (expire_on_commit=False, and  *)
(* resolving the active household loads every item of the household), so a *)
(* handler works on the attributes of snap[r], while the existence of a    *)
(* row is read afresh by each statement.                                   *)
(*                                                                         *)
(* An item's columns are abstracted to "content" (those a PATCH sets),     *)
(* "status" and "version".  All requests are of one household.             *)
(***************************************************************************)
EXTENDS Naturals, Sequences, FiniteSets

CONSTANTS
  Reqs,         \* requests, each received at most once
  Ops,          \* the operations clients send, a subset of AllOps
  Users,        \* members of the household
  Items,        \* item ids
  Keys,         \* idempotency keys
  Contents,     \* values of the columns a PATCH sets
  Statuses,     \* values of the column status, "active" among them
  Versions,     \* versions a client may expect
  Seeded,       \* items that were there before
  Reservable,   \* items that meal plans may reserve
  MaxInFlight,  \* bound on the requests running at once
  MaxFail,      \* bound on the requests that die
  None          \* None, null and {}

AllOps == {"create", "update", "status", "delete", "undo"}

Row == [content : Contents, status : Statuses, version : Nat]

(* A request as it arrives.  The id of a new item is drawn here, though    *)
(* the database layer draws it when it inserts the row.                    *)
Calls ==
  LET Call(op, vers, args) == [op : {op} \cap Ops, user : Users, item : Items,
                               key : Keys, ver : vers, arg : args]
  IN  Call("create", {None}, Contents)
      \cup Call("update", Versions \cup {None}, Contents)
      \cup Call("status", Versions \cup {None}, Statuses)
      \cup Call("delete", {None}, {None})
      \cup Call("undo", {None}, {None})

(* Status codes, with "replay" for an answer from the idempotency cache.   *)
Answers == {"200", "404", "409", "500", "replay"}

State == Row \cup {None}

Event == [item : Items \cup {None}, id : Items, user : Users,
          action : {"added", "updated", "status_updated", "removed", "undone"},
          prev : State, new : State, req : Reqs]

(* A handler answers with an item, or DELETE with the empty dict.          *)
Body == [item : Items \cup {None}, row : State]
EmptyBody == [item |-> None, row |-> None]

ASSUME ConstantsAssumption ==
  /\ Ops \subseteq AllOps
  /\ Seeded \subseteq Items
  /\ Reservable \subseteq Items
  /\ Versions \subseteq Nat
  /\ "active" \in Statuses
  /\ None \notin Row \cup Items \cup Nat \cup Calls \cup Contents \cup Statuses \cup Answers \cup Body

(* What an entry of the idempotency cache is stored under: the member, the *)
(* path and the raw key; PATCH, PUT and DELETE of an item have one path.   *)
Kind(op) == CASE op = "create" -> "items"
              [] op \in {"update", "delete"} -> "item"
              [] op = "status" -> "status"
              [] op = "undo" -> "undo"

Scope(c) == [user |-> c.user, kind |-> Kind(c.op), key |-> c.key,
             item |-> IF c.op = "create" THEN None ELSE c.item]

Scopes == {Scope(c) : c \in Calls}

VARIABLES
  rows,      \* the table inventory_items
  events,    \* the table inventory_events, in the order of its insertions
  bus,       \* the events published to the household; an event is named by its request
  cache,     \* the idempotency cache
  reserved,  \* items with a row in reserved_ingredients
  pc,        \* where each request is
  call,      \* what it asks
  snap,      \* the attributes its session holds of the item
  post,      \* the attributes after the refresh
  source,    \* the states of the event an undo has picked
  code,      \* the status code answered
  wrote,     \* history: the request has committed a change of rows
  past,      \* history: the committed states of every item
  before     \* history: the requests answered before this one arrived

tables == <<rows, events, bus, cache, reserved>>
vars == <<tables, pc, call, snap, post, source, code, wrote, past, before>>

Stages == {"idle", "loaded", "checked", "restoring", "written", "refreshed",
           "logged", "announcing", "announced", "deleting", "removing",
           "published", "done", "failed"}
Codes == Answers \cup {None}

TypeOK ==
  /\ rows \in [Items -> State]
  /\ events \in Seq(Event)
  /\ bus \in Seq(Reqs)
  /\ cache \in [Scopes -> Body \cup {None}]
  /\ reserved \in SUBSET Items
  /\ pc \in [Reqs -> Stages]
  /\ call \in [Reqs -> Calls \cup {None}]
  /\ snap \in [Reqs -> State]
  /\ post \in [Reqs -> State]
  /\ source \in [Reqs -> [prev : State, new : State]]
  /\ code \in [Reqs -> Codes]
  /\ wrote \in [Reqs -> BOOLEAN]
  /\ past \in [Items -> SUBSET Row]
  /\ before \in [Reqs -> SUBSET Reqs]
  /\ \A r \in Reqs : pc[r] # "idle" => call[r] # None

---------------------------------------------------------------------------
NewRow(c) == [content |-> c, status |-> "active", version |-> 1]

Init ==
  /\ rows \in [Items -> {None} \cup {NewRow(c) : c \in Contents}]
  /\ \A i \in Items : rows[i] # None <=> i \in Seeded
  /\ events = <<>>
  /\ bus = <<>>
  /\ cache = [s \in Scopes |-> None]
  /\ reserved = {}
  /\ pc = [r \in Reqs |-> "idle"]
  /\ call = [r \in Reqs |-> None]
  /\ snap = [r \in Reqs |-> None]
  /\ post = [r \in Reqs |-> None]
  /\ source = [r \in Reqs |-> [prev |-> None, new |-> None]]
  /\ code = [r \in Reqs |-> None]
  /\ wrote = [r \in Reqs |-> FALSE]
  /\ past = [i \in Items |-> {rows[i]} \ {None}]
  /\ before = [r \in Reqs |-> {}]

Started(r) == pc[r] # "idle"
InFlight == {r \in Reqs : pc[r] \notin {"idle", "done", "failed"}}
Item(r) == call[r].item

Advance(r, stage) ==
  /\ pc' = [pc EXCEPT ![r] = stage]
  /\ UNCHANGED code

Finish(r, status) ==
  /\ pc' = [pc EXCEPT ![r] = "done"]
  /\ code' = [code EXCEPT ![r] = status]

(* The data written by a commit of request r.                              *)
SetRow(r, row) ==
  /\ rows' = [rows EXCEPT ![Item(r)] = row]
  /\ past' = [past EXCEPT ![Item(r)] = @ \cup ({row} \ {None})]
  /\ wrote' = [wrote EXCEPT ![r] = TRUE]

---------------------------------------------------------------------------
(* Receipt: the dependencies authenticate the member and load the          *)
(* household with its items.  A client draws one key per operation, so a   *)
(* key comes back only with the same operation.                            *)
KeyDiscipline(c) ==
  \A q \in Reqs : (Started(q) /\ call[q].key = c.key /\ call[q].user = c.user)
                    => /\ call[q].op = c.op
                       /\ call[q].ver = c.ver
                       /\ call[q].arg = c.arg
                       /\ c.op = "create" \/ call[q].item = c.item

Known(c) == past[c.item] # {}
Fresh(c) == ~Known(c) /\ \A q \in Reqs : Started(q) => call[q].item # c.item

Receive(r, c) ==
  /\ pc[r] = "idle"
  /\ Cardinality(InFlight) < MaxInFlight
  /\ KeyDiscipline(c)
  /\ IF c.op = "create" THEN Fresh(c) ELSE Known(c)
  /\ call' = [call EXCEPT ![r] = c]
  /\ snap' = [snap EXCEPT ![r] = rows[c.item]]
  /\ before' = [before EXCEPT ![r] = {q \in Reqs : pc[q] = "done"}]
  /\ Advance(r, "loaded")
  /\ UNCHANGED <<tables, post, source, wrote, past>>

---------------------------------------------------------------------------
(* The idempotency cache, shared by the processes.                         *)
get_cached(c) == cache[Scope(c)]

(* Slip: an empty entry is no hit for DELETE either.                       *)
hit_if_not_empty(c) == get_cached(c) \notin {None, EmptyBody}

(* DELETE takes any entry as a hit, the other handlers not the empty one.  *)
Hit(c) == /\ get_cached(c) # None
          /\ c.op # "delete" => get_cached(c) # EmptyBody

(* Slip: the answer is not stored.                                         *)
store_nothing(r, body) == UNCHANGED cache

store_cached(r, body) == cache' = [cache EXCEPT ![Scope(call[r])] = body]

Replay(r) ==
  /\ pc[r] = "loaded"
  /\ Hit(call[r])
  /\ Finish(r, "replay")
  /\ UNCHANGED <<tables, call, snap, post, source, wrote, past, before>>

(* A handler that finds nothing cached calls its service.                  *)
Calling(r, op) == pc[r] = "loaded" /\ call[r].op = op /\ ~Hit(call[r])

---------------------------------------------------------------------------
(* What a SELECT of the item gives the session: no row, the attributes it  *)
(* already holds, or those of the row.                                     *)
get_by_id(r) == IF rows[Item(r)] = None THEN None
                ELSE IF snap[r] = None THEN rows[Item(r)]
                ELSE snap[r]

Load(r) == snap' = [snap EXCEPT ![r] = get_by_id(r)]

(* The item is gone: nothing changes and the handler answers.              *)
Gone(r, stage, status) ==
  /\ pc[r] = stage
  /\ rows[Item(r)] = None
  /\ Finish(r, status)
  /\ UNCHANGED <<tables, call, snap, post, source, wrote, past, before>>

create_item(r) ==
  /\ Calling(r, "create")
  /\ SetRow(r, NewRow(call[r].arg))
  /\ Advance(r, "written")
  /\ UNCHANGED <<events, bus, cache, reserved, call, snap, post, source, before>>

(* update_item and update_status up to the version check.                  *)
check_version(r) ==
  /\ Calling(r, "update") \/ Calling(r, "status")
  /\ get_by_id(r) # None
  /\ Load(r)
  /\ IF call[r].ver \in {None, get_by_id(r).version}
     THEN Advance(r, "checked")
     ELSE Finish(r, "409")
  /\ UNCHANGED <<tables, call, post, source, wrote, past, before>>

not_found(r) ==
  /\ \E op \in {"update", "status", "delete"} : Calling(r, op)
  /\ Gone(r, "loaded", "404")

(* The attributes after the handler has set them.                          *)
Edited(r) ==
  CASE call[r].op = "update" -> [snap[r] EXCEPT !.content = call[r].arg,
                                                !.version = @ + 1]
    [] call[r].op = "status" -> [snap[r] EXCEPT !.status = call[r].arg,
                                                !.version = @ + 1]
    [] call[r].op = "undo"   -> [source[r].prev EXCEPT !.version = snap[r].version + 1]

(* The UPDATE names the row by its id only and sets the columns whose      *)
(* attribute differs from the one loaded.                                  *)
Merge(row, old, new) ==
  [content |-> IF new.content = old.content THEN row.content ELSE new.content,
   status  |-> IF new.status = old.status THEN row.status ELSE new.status,
   version |-> IF new.version = old.version THEN row.version ELSE new.version]

update(r) ==
  /\ pc[r] = "checked"
  /\ rows[Item(r)] # None
  /\ SetRow(r, Merge(rows[Item(r)], snap[r], Edited(r)))
  /\ Advance(r, "written")
  /\ UNCHANGED <<events, bus, cache, reserved, call, snap, post, source, before>>

(* session.refresh after the commit reads the row again.                   *)
refresh(r) ==
  /\ pc[r] = "written"
  /\ rows[Item(r)] # None
  /\ post' = [post EXCEPT ![r] = rows[Item(r)]]
  /\ Advance(r, "refreshed")
  /\ UNCHANGED <<tables, call, snap, source, wrote, past, before>>

---------------------------------------------------------------------------
(* log_event: a transaction of its own, then the publication.  The foreign *)
(* key of the event needs the item.                                        *)
ActionOf(op) == CASE op = "create" -> "added"
                  [] op = "update" -> "updated"
                  [] op = "status" -> "status_updated"
                  [] op = "delete" -> "removed"
                  [] op = "undo"   -> "undone"

NewEvent(r, prev, new) ==
  [item |-> Item(r), id |-> Item(r), user |-> call[r].user,
   action |-> ActionOf(call[r].op), prev |-> prev, new |-> new, req |-> r]

(* Slip: the previous state is taken after the attributes are set.         *)
late_snapshot(r) == CASE call[r].op = "create" -> None
                      [] call[r].op = "undo" -> source[r].new
                      [] OTHER -> Edited(r)

PreviousState(r) == CASE call[r].op = "create" -> None
                      [] call[r].op = "undo" -> source[r].new
                      [] OTHER -> snap[r]

(* Slips: the event is added but not committed; it is not published.       *)
log_uncommitted(r) ==
  /\ pc[r] = "refreshed"
  /\ rows[Item(r)] # None
  /\ Advance(r, "logged")
  /\ UNCHANGED <<tables, call, snap, post, source, wrote, past, before>>

log_unpublished(r) ==
  /\ pc[r] = "refreshed"
  /\ rows[Item(r)] # None
  /\ events' = Append(events, NewEvent(r, PreviousState(r), post[r]))
  /\ Advance(r, "published")
  /\ UNCHANGED <<rows, bus, cache, reserved, call, snap, post, source, wrote,
                 past, before>>

log_event(r) ==
  /\ pc[r] = "refreshed"
  /\ rows[Item(r)] # None
  /\ events' = Append(events, NewEvent(r, PreviousState(r), post[r]))
  /\ Advance(r, "logged")
  /\ UNCHANGED <<rows, bus, cache, reserved, call, snap, post, source, wrote,
                 past, before>>

publish(r) ==
  /\ pc[r] \in {"logged", "announced"}
  /\ bus' = Append(bus, r)
  /\ Advance(r, IF pc[r] = "logged" THEN "published" ELSE "deleting")
  /\ UNCHANGED <<rows, events, cache, reserved, call, snap, post, source, wrote,
                 past, before>>

(* The item went away between two statements: the refresh, the UPDATE or   *)
(* the insertion of the event raises, and the request answers 500.         *)
row_vanished(r) ==
  \E stage \in {"checked", "written", "refreshed", "announcing"} :
     Gone(r, stage, "500")

---------------------------------------------------------------------------
(* delete_item logs and publishes the removal before it deletes the row.   *)
delete_item(r) ==
  /\ Calling(r, "delete")
  /\ get_by_id(r) # None
  /\ Load(r)
  /\ Advance(r, "announcing")
  /\ UNCHANGED <<tables, call, post, source, wrote, past, before>>

log_removed(r) ==
  /\ pc[r] = "announcing"
  /\ rows[Item(r)] # None
  /\ events' = Append(events, NewEvent(r, snap[r], None))
  /\ Advance(r, "announced")
  /\ UNCHANGED <<rows, bus, cache, reserved, call, snap, post, source, wrote,
                 past, before>>

Unlink(i) == [k \in DOMAIN events |->
                [events[k] EXCEPT !.item = IF @ = i THEN None ELSE @]]

(* The repository looks the item up once more before it deletes it.        *)
find_again(r) ==
  /\ pc[r] = "deleting"
  /\ rows[Item(r)] # None
  /\ Advance(r, "removing")
  /\ UNCHANGED <<tables, call, snap, post, source, wrote, past, before>>

(* Slip: a deletion that a reservation refuses is answered as if done.     *)
delete_or_pretend(r) ==
  /\ pc[r] = "removing"
  /\ IF rows[Item(r)] = None \/ Item(r) \in reserved
     THEN UNCHANGED <<rows, past, wrote>>
     ELSE SetRow(r, None)
  /\ events' = Unlink(Item(r))
  /\ Advance(r, "published")
  /\ UNCHANGED <<bus, cache, reserved, call, snap, post, source, before>>

(* If another removal was first, the DELETE matches no row and is          *)
(* committed all the same.                                                 *)
delete(r) ==
  /\ pc[r] = "removing"
  /\ IF Item(r) \in reserved
     THEN /\ Finish(r, "500")
          /\ UNCHANGED <<rows, events, past, wrote>>
     ELSE /\ IF rows[Item(r)] = None THEN UNCHANGED <<rows, past, wrote>> ELSE SetRow(r, None)
          /\ events' = Unlink(Item(r))
          /\ Advance(r, "published")
  /\ UNCHANGED <<bus, cache, reserved, call, snap, post, source, before>>

already_deleted(r) == Gone(r, "deleting", "404")

---------------------------------------------------------------------------
(* undo_last reverts the member's own newest event of the item.            *)
Concerns(e, i) == \/ e.item = i
                  \/ e.id = i /\ (e.prev # None \/ e.new # None)

(* Slip: undo looks at the events of all members.                          *)
events_of_all(c) == {k \in DOMAIN events : Concerns(events[k], c.item)}

OwnEvents(c) == {k \in DOMAIN events :
                   events[k].user = c.user /\ Concerns(events[k], c.item)}

(* The newest of them, if there is any.                                    *)
Newest(c) == {events[k] : k \in {m \in OwnEvents(c) : \A j \in OwnEvents(c) : j <= m}}

Pick(r, e) == source' = [source EXCEPT ![r] = [prev |-> e.prev, new |-> e.new]]

nothing_to_undo(r) ==
  /\ Calling(r, "undo")
  /\ \A e \in Newest(call[r]) :
        IF e.action = "removed" THEN e.prev = None ELSE get_by_id(r) = None
  /\ Finish(r, "404")
  /\ UNCHANGED <<tables, call, snap, post, source, wrote, past, before>>

(* The newest event has no previous state: the item is answered as it is.  *)
undo_nothing(r) ==
  /\ Calling(r, "undo")
  /\ \E e \in Newest(call[r]) : e.action # "removed" /\ e.prev = None
  /\ get_by_id(r) # None
  /\ Load(r)
  /\ post' = [post EXCEPT ![r] = get_by_id(r)]
  /\ Advance(r, "published")
  /\ UNCHANGED <<tables, call, source, wrote, past, before>>

undo_change(r) ==
  /\ Calling(r, "undo")
  /\ \E e \in Newest(call[r]) : /\ e.action # "removed"
                               /\ e.prev # None
                               /\ Pick(r, e)
  /\ get_by_id(r) # None
  /\ Load(r)
  /\ Advance(r, "checked")
  /\ UNCHANGED <<tables, call, post, wrote, past, before>>

undo_removal(r) ==
  /\ Calling(r, "undo")
  /\ \E e \in Newest(call[r]) : /\ e.action = "removed"
                               /\ e.prev # None
                               /\ Pick(r, e)
  /\ Advance(r, "restoring")
  /\ UNCHANGED <<tables, call, snap, post, wrote, past, before>>

Larger(m, n) == IF m < n THEN n ELSE m

(* Slip: a removed item comes back with the version it had.                *)
restored_as_was(e) == e.prev

Restored(e) ==
  [e.prev EXCEPT !.version =
     Larger(@, IF e.new = None THEN 0 ELSE e.new.version) + 1]

(* The INSERT of an id that is still there breaks the primary key.         *)
restore(r) ==
  /\ pc[r] = "restoring"
  /\ IF rows[Item(r)] # None
     THEN /\ Finish(r, "500")
          /\ UNCHANGED <<rows, past, wrote>>
     ELSE /\ SetRow(r, Restored(source[r]))
          /\ Advance(r, "written")
  /\ UNCHANGED <<events, bus, cache, reserved, call, snap, post, source, before>>

---------------------------------------------------------------------------
ResponseBody(r) == IF call[r].op = "delete" THEN EmptyBody
                   ELSE [item |-> Item(r), row |-> post[r]]

(* Slip: an entry another request has stored meanwhile is answered instead. *)
respond_if_absent(r) ==
  /\ pc[r] = "published"
  /\ IF Hit(call[r]) THEN UNCHANGED cache /\ Finish(r, "replay")
     ELSE store_cached(r, ResponseBody(r)) /\ Finish(r, "200")
  /\ UNCHANGED <<rows, events, bus, reserved, call, snap, post, source, wrote,
                 past, before>>

respond(r) ==
  /\ pc[r] = "published"
  /\ store_cached(r, ResponseBody(r))
  /\ Finish(r, "200")
  /\ UNCHANGED <<rows, events, bus, reserved, call, snap, post, source, wrote,
                 past, before>>

(* The process dies, or a call of the database, of the bus or of the cache *)
(* raises: what was committed stays and the client gets no answer.         *)
Fail(r) ==
  /\ r \in InFlight
  /\ Cardinality({q \in Reqs : pc[q] = "failed"}) < MaxFail
  /\ Advance(r, "failed")
  /\ UNCHANGED <<tables, call, snap, post, source, wrote, past, before>>

(* Meal planning reserves items and gives them back.                       *)
Reserve(i) ==
  /\ i \in Reservable \ reserved
  /\ rows[i] # None
  /\ reserved' = reserved \cup {i}
  /\ UNCHANGED <<rows, events, bus, cache, pc, call, snap, post, source, code,
                 wrote, past, before>>

Release(i) ==
  /\ i \in reserved
  /\ reserved' = reserved \ {i}
  /\ UNCHANGED <<rows, events, bus, cache, pc, call, snap, post, source, code,
                 wrote, past, before>>

---------------------------------------------------------------------------
Handle(r) ==
  \/ Replay(r) \/ create_item(r) \/ check_version(r) \/ not_found(r)
  \/ update(r) \/ refresh(r) \/ log_event(r) \/ publish(r) \/ row_vanished(r)
  \/ delete_item(r) \/ log_removed(r) \/ find_again(r) \/ delete(r) \/ already_deleted(r)
  \/ nothing_to_undo(r) \/ undo_nothing(r) \/ undo_change(r)
  \/ undo_removal(r) \/ restore(r) \/ respond(r)

Next ==
  \/ \E r \in Reqs, c \in Calls : Receive(r, c)
  \/ \E r \in Reqs : Handle(r) \/ Fail(r)
  \/ \E i \in Items : Reserve(i) \/ Release(i)

Spec == Init /\ [][Next]_vars

(* A coroutine that can go on is resumed by the event loop, in time.       *)
FairSpec == Spec /\ \A r \in Reqs : WF_vars(Handle(r))

---------------------------------------------------------------------------
Logged(r) == \E k \in DOMAIN events : events[k].req = r
Published(r) == \E k \in DOMAIN bus : bus[k] = r

(* Another removal has deleted the item of r while r was running.          *)
Overtaken(r) ==
  \E q \in Reqs : /\ wrote[q] /\ call[q].op = "delete" /\ Item(q) = Item(r)
                  /\ q \notin before[r] /\ r \notin before[q]

(* A write answered with 200 that changed the inventory is in the activity *)
(* log exactly once and was published exactly once: log_event is awaited   *)
(* before every answer.  One that changed nothing is an undo without       *)
(* effect, in neither, or a removal, in both, whose item another removal   *)
(* deleted between its last SELECT and its DELETE (repository.py:89-101):  *)
(* nothing else, no reservation in particular, makes a log entry of what   *)
(* was not done and lets it be answered with success.                      *)
AckedIsLogged ==
  /\ \A r \in Reqs : code[r] = "200" =>
       \/ wrote[r] /\ Logged(r) /\ Published(r)
       \/ ~wrote[r] /\ call[r].op = "undo" /\ ~Logged(r) /\ ~Published(r)
       \/ ~wrote[r] /\ call[r].op = "delete" /\ Logged(r) /\ Published(r) /\ Overtaken(r)
  /\ \A j, k \in DOMAIN events : events[j].req = events[k].req => j = k
  /\ \A j, k \in DOMAIN bus : bus[j] = bus[k] => j = k

(* A 409 and an answer from the idempotency cache are free of effects: no  *)
(* change of a row, no event, nothing on the bus.                          *)
RefusedHasNoEffect ==
  \A r \in Reqs : code[r] \in {"409", "replay"} =>
                    ~wrote[r] /\ ~Logged(r) /\ ~Published(r)

(* Members are told of nothing that is not in the activity log, whatever   *)
(* the interleaving and the failures: publish follows the commit.          *)
PublishedIsLogged == \A r \in Reqs : Published(r) => Logged(r)

(* An event reports states the item really had at some time, never a       *)
(* blend of what one session had loaded with what another has written:     *)
(* the row is refreshed after the commit and before the snapshot.          *)
EventsReportCommittedStates ==
  \A k \in DOMAIN events :
    {events[k].prev, events[k].new} \ {None} \subseteq past[events[k].id]

SameOperation(q, r) == /\ Scope(call[q]) = Scope(call[r])
                       /\ call[q].op = call[r].op

(* A request sent again after its answer 200 is answered from the cache,   *)
(* whatever else happens: it neither changes the inventory a second time   *)
(* nor fails on the outcome of the first.                                  *)
RetryAfterAckIsReplayed ==
  \A r \in Reqs : \A q \in before[r] :
    (code[q] = "200" /\ SameOperation(q, r)) => code[r] \in {None, "replay"}

(* A committed change is told to the members in the end, unless the        *)
(* request answers 500 or dies: nothing a request waits for can be held    *)
(* by another one for ever.                                                *)
ChangeReachesMembers ==
  \A r \in Reqs : wrote[r] ~> (Published(r) \/ code[r] = "500" \/ pc[r] = "failed")

---------------------------------------------------------------------------
(* The inductive invariant behind these: what each stage of a request      *)
(* knows and has done.                                                     *)
Silent(r) == ~wrote[r] /\ ~Logged(r) /\ ~Published(r)
Told(r) == wrote[r] /\ Logged(r) /\ Published(r)

(* What a request holds at the stages where it uses it.                    *)
StageInv ==
  \A r \in Reqs :
    /\ pc[r] = "checked" => /\ call[r].op \in {"update", "status", "undo"}
                            /\ snap[r] # None
                            /\ call[r].op = "undo" => source[r].prev # None
    /\ pc[r] = "restoring" => call[r].op = "undo" /\ source[r].prev # None
    /\ pc[r] \in {"written", "refreshed", "logged"} => call[r].op # "delete"
    /\ pc[r] \in {"announcing", "announced", "deleting", "removing"} => call[r].op = "delete"

(* What it has left in the tables and on the bus.                          *)
TraceAt(r) ==
  /\ pc[r] \in {"idle", "loaded", "checked", "restoring", "announcing"} => Silent(r)
  /\ pc[r] \in {"written", "refreshed"} => wrote[r] /\ ~Logged(r) /\ ~Published(r)
  /\ pc[r] = "logged" => wrote[r] /\ Logged(r) /\ ~Published(r)
  /\ pc[r] = "announced" => ~wrote[r] /\ Logged(r) /\ ~Published(r)
  /\ pc[r] \in {"deleting", "removing"} => ~wrote[r] /\ Logged(r) /\ Published(r)
  /\ pc[r] = "published" \/ code[r] = "200"
       => \/ Told(r)
          \/ call[r].op = "undo" /\ Silent(r)
          \/ call[r].op = "delete" /\ ~wrote[r] /\ Logged(r) /\ Published(r)
  /\ code[r] \in {"409", "replay"} => Silent(r)
  /\ code[r] # None => pc[r] = "done"
  /\ Published(r) => Logged(r)

TraceInv == \A r \in Reqs : TraceAt(r)

OnceInv == /\ \A j, k \in DOMAIN events : events[j].req = events[k].req => j = k
           /\ \A j, k \in DOMAIN bus : bus[j] = bus[k] => j = k

(* Every state held anywhere is one the item had.                          *)
Real(s, i) == s # None => s \in past[i]

RealRows == \A i \in Items : Real(rows[i], i)

RealRequest(r) ==
  /\ Started(r) => /\ Real(snap[r], Item(r)) /\ Real(post[r], Item(r))
                   /\ Real(source[r].prev, Item(r)) /\ Real(source[r].new, Item(r))
  /\ ~Started(r) => post[r] = None /\ source[r].prev = None /\ source[r].new = None

RealEvent(e) == /\ e.item \in {None, e.id}
                /\ Real(e.prev, e.id) /\ Real(e.new, e.id)

PastInv == /\ RealRows
           /\ \A r \in Reqs : RealRequest(r)
           /\ \A k \in DOMAIN events : RealEvent(events[k])

(* A key stands for one operation, and an answered one is in the cache.    *)
CacheInv ==
  /\ \A q, r \in Reqs :
       (Started(q) /\ Started(r) /\ call[q].user = call[r].user
          /\ call[q].key = call[r].key) => call[q].op = call[r].op
  /\ \A q \in Reqs : code[q] = "200" => Hit(call[q])
  /\ \A r \in Reqs : \A q \in before[r] :
       /\ Started(r) /\ pc[q] = "done"
       /\ (code[q] = "200" /\ SameOperation(q, r))
            => \/ pc[r] \in {"loaded", "failed"}
               \/ pc[r] = "done" /\ code[r] = "replay"

(* A removal that finds no row, or has found none, was overtaken.          *)
RemovalInv ==
  \A r \in Reqs :
    (/\ Started(r) /\ call[r].op = "delete" /\ ~wrote[r]
     /\ (pc[r] = "removing" /\ rows[Item(r)] = None) \/ pc[r] = "published" \/ code[r] = "200")
      => Overtaken(r)

Inv == TypeOK /\ StageInv /\ TraceInv /\ OnceInv /\ PastInv /\ CacheInv /\ RemovalInv

---------------------------------------------------------------------------
(* When requests overlap, die or meet a reservation, the documents claim   *)
(* more than the code keeps.                                               *)

(* Optimistic concurrency: of two operations that expect the same version  *)
(* of an item, one is refused (test_update_with_stale_version_returns_409).*)
NoLostUpdate ==
  \A q, r \in Reqs :
    (code[q] = "200" /\ code[r] = "200" /\ wrote[q] /\ wrote[r]
       /\ call[q].key # call[r].key /\ Item(q) = Item(r))
      => call[q].ver = None \/ call[q].ver # call[r].ver

---------------------------------------------------------------------------
(* The versions of an item only grow, over its deletion and restoration    *)
(* too, so that a version names one state of the item for ever.  It holds  *)
(* when requests do not overlap, none dies and no item is reserved         *)
(* (MaxInFlight = 1, MaxFail = 0, Reservable = {}).                        *)
VersionsGrow ==
  [][\A i \in Items : rows'[i] \notin {None, rows[i]} =>
       \A s \in past[i] : s.version < rows'[i].version]_vars
===========================================================================
