# FridgeFriend: specifications and proofs

FridgeFriend keeps the food inventory of a household: a FastAPI backend
(`src/backend/app`) with PostgreSQL, Redis and a Celery worker, a Flutter app
with an offline queue (`src/mobile`), a read-only dashboard (`src/dashboard`)
and Terraform (`src/infra`). This directory holds TLA+ modules of what these
parts do, the TLC runs that check them and the theorems TLAPS proves.

## Inventory of the system

| component | state | operations | hard because | correct when |
| --- | --- | --- | --- | --- |
| inventory writes, activity log, undo (`modules/inventory`) | tables `inventory_items`, `inventory_events`; per request a session with an identity map | create, update, status, delete, undo; each several transactions, a publication and a cache write | requests of several members overlap in several processes; a request may die between any two awaits; the attributes a session works on are those loaded at its start | item and log change together; acknowledged changes are logged and told exactly once; logged states are real; undo takes back the member's own latest change |
| idempotency cache (`core/idempotency.py`) | Redis (one per deployment), 24 h | `get_cached`, `store_cached` around each handler | lookup and store are not atomic; Redis may be down at either | a repetition of an answered request changes nothing |
| meal planning, reservations, shopping list (`modules/planning`) | `meal_plans`, `meal_plan_days`, `reserved_ingredients`, `shopping_list_items` | choose recipes, reserve, delete a plan, add shopping items, derive the list | plans of one household lock the same items; the lock does not refresh what the session loaded; edits of items ignore reservations; the same inventory is read three ways | no quantity is promised twice; a failed plan leaves nothing; what is taken and what is listed add up to what is needed |
| household membership (`modules/households/service.py`, `core/auth.py`) | `households`, `household_members` | create, join, leave, remove, activate; default household of a new user | every operation is several commits that decide on what an earlier query returned | every household has members and an owner, a user one membership per household and one active |
| event bus and event stream (`event_bus.py`, `sse.py`, `sse_client.dart`) | a queue of 100 per subscriber, a history of 500 events for an hour, the last event id of the client | publish, subscribe, replay after a reconnection | connections drop; a full queue drops its oldest event; Redis may fail over to memory | a member who reconnects in time misses no event |
| offline queue of the app (`sync_manager.dart`, `conflict_resolver.dart`, `inventory_repository_impl.dart`) | the table `offline_mutation_queue`, the cached items | queue, flush, retarget, rebase, resolve a conflict, replace the cache | answers get lost, items change on the server meanwhile, the app stops in the middle of a flush | every queued change reaches the server once, later changes of an item after earlier ones, and overwrites nobody else's |
| expiry reminders (`modules/notifications`) | preferences, device tokens | daily task, quiet hours, preferences, devices | users change all it reads while it walks through them | exactly those with something due are told |
| expiry rules, urgency, units (`modules/expiry`, `core/units.py`) | rules in code and in a table | dates of new items, buckets | merging, boundaries, spellings | agree with their definition |
| catalog, barcode and photo scan (`modules/catalog`) | `canonical_ingredients`, `product_barcodes`, stored photos | scan, draft, upload, resolve a name | outside services fail; unique keys make overlapping first scans wait and fail; names are normalised several times | what an answer tells of is stored; scan and item agree |
| recommendations (`modules/recommendations`) | a record of what was shown | rank the recipes of a source | three sources with different fields and fallbacks; two ways of matching names | the diet is respected, available food counts |
| analytics, dashboard, user interface, infrastructure | | | | not modelled, see the end |

Interactions: the app calls the write endpoints with an `Idempotency-Key`; the
handlers run as coroutines of one process per ECS task, each with one database
session, and share PostgreSQL (READ COMMITTED) and Redis; `log_event` publishes
on the household bus, whose subscribers are the event streams of the members'
apps; planning inserts reservations whose foreign key forbids deleting an item;
a new item gets its canonical name from the catalog and its date from the expiry
rules; recommendations and planning read the inventory; the reminder task reads
items, memberships, preferences and devices; the app's queue talks to the
inventory endpoints.

## Plan

1. `Inventory`: the write requests; `AtomicInventory`: what they promise;
   `InventoryRefinement`: that the first implements the second when requests do
   not overlap; `InventoryProofs`. **Done.**
2. `Reservations`: plan generation under row locks, deletion of plans, edits of
   items in between; `ManualList`: the idempotent shopping list;
   `ReservationsProofs`, `ManualListProofs`. **Done**, except an abstract
   specification of plans (a plan takes all it needs in one step, or nothing).
3. `Membership`: households, roles, active membership, overlapping join, leave
   and remove, the default household of a new user. **Done.**
4. `EventStream`: publication, bounded queues and history, reconnection with
   the last event id; refinement of `EventLog`, which each member reads in
   order. **Done.**
5. `OfflineSync`: the queue of the app, lost answers, conflicts, restarts,
   against a server with versions and idempotency keys. **Done.**
6. `Reminders`, and `Units`, `Expiry`, `Suggestions`, `Catalog` with their
   composition `Kitchen`. **Done.**
7. Theorems about the safety properties of all of these modules: `InventoryProofs`
   (with the refinement), `ReservationsProofs` (with the sums), `ManualListProofs`,
   `MembershipProofs`, `EventStreamProofs` (with the refinement),
   `RemindersProofs`, `KitchenProofs`, `OfflineSyncProofs`. **Done**, except what
   "Model-checked only" below lists.
8. Left: an abstract specification of plans and its refinement.

## Module Inventory

All requests are of one household and one process boundary does not matter:
every step is one transaction, one cache call or one publication.

| variable | code |
| --- | --- |
| `rows` | `inventory_items`; columns set by a PATCH are one `content`, then `status`, `version` |
| `events` | `inventory_events` in insertion order; `id` is the id in the snapshots, `item` the column that a deletion sets to null |
| `bus` | what `household_event_bus.publish` was given |
| `cache` | the idempotency cache by user, path and key |
| `reserved` | items that a row of `reserved_ingredients` refers to |
| `pc`, `call`, `snap`, `post`, `source`, `code` | where a request is, what it asks, the attributes its session holds, those after the refresh, the states of the event an undo picked, the answer |
| `wrote`, `past`, `before` | history for the properties |

| action | code |
| --- | --- |
| `Receive` | the dependencies: user, active household with all its items loaded into the session |
| `Replay`, `respond` | `get_cached` and `store_cached` in `router.py` |
| `create_item`, `check_version`, `update`, `refresh` | `service.py` and `repository.py`, cut at the commit and at the refresh |
| `log_event`, `publish` | the transaction of `log_event` and the publication after it |
| `delete_item`, `log_removed`, `find_again`, `delete`, `already_deleted` | `delete_item`: load, log and publish; then the repository's own SELECT, and after it the DELETE, which commits also when another removal has left it no row |
| `nothing_to_undo`, `undo_nothing`, `undo_change`, `undo_removal`, `restore` | the branches of `undo_last` |
| `row_vanished` | the row is gone at a refresh, an UPDATE or an insertion of an event: 500 |
| `Fail` | the process dies or a call raises |
| `Reserve`, `Release` | the effect of planning on deletions |

A session never refreshes attributes by a SELECT (`expire_on_commit=False`), so
`get_by_id` returns the attributes loaded before, if the row still exists; the
ORM's UPDATE names the row by id and sets only the changed columns (`Merge`).
The `version` check is therefore against the session's copy.

`AckedIsLogged` relates answers, log and bus: what was answered with success and
changed something is logged and told exactly once, and what changed nothing is
an undo of nothing, without a trace, or a removal that another removal of the
item overtook between its SELECT and its DELETE (`Overtaken`;
`repository.py:89-101`). The latter is logged, told and answered 204 although it
changed nothing; the property says that nothing else, a reservation that forbids
the deletion in particular, has this outcome.

`AtomicInventory` has two variables, the items and the log, that change in one
step. `InventoryRefinement` maps a request half-way through to the moment of its
second transaction: the event of a committed change, or the deletion of a logged
removal.

## Module Reservations

Plan requests and deletions of plans of one household, beside the commits of the
item requests. A plan request is cut where other requests can come in between:

| action | code |
| --- | --- |
| `Receive`, `Replay`, `respond` | dependencies, `get_cached`, `store_cached` in `planning/router.py` |
| `list_active_inventory` | the SELECT ... FOR UPDATE: waits until no other transaction holds a usable item, then holds all of them |
| `no_matching_recipes` | the planner raises: 422, the session closes and its locks go |
| `generate_plan` | the planner's choice, the flush of the plan and the read of all other plans' reservations |
| `reserve_plan`, `refuse_plan` | the allocation and the commit, or `InsufficientReservationQuantityError`, the rollback and a 500 |
| `list_gaps` | after the commit: the second read of reservations, by name, and `derive_shopping_list` |
| `find_plan`, `delete_plan` | `delete_plan`: the plan of this member, then the cascade |
| `write_item`, `remove_item` | a commit of an item request: waits for the row lock; the foreign key keeps a reserved item |
| `die` | the process dies, the database rolls back |

`stock`, `plans`, `reservations` and `locked` are the tables and the row locks;
`attrs`, `view`, `menu`, `seen`, `got`, `listed` what a request holds; `most` and
`writes` are history. `attrs` is loaded at receipt (the household comes with its
items) and the locking SELECT leaves it alone except for items that are new to
the session, exactly as in `Inventory`: a plan may reserve from quantities older
than its lock.

Allocation is arithmetic over finite sets: the share of an item in a line is
what is free of it, up to what the items that expire before it have left of the
need. This equals the loop of `_allocate_quantity` because an item that gives
something is reached only when all earlier ones are exhausted. Abstractions: an
item keeps its name and its place in the order of expiry; frozen counts as
active and discarded as used; quantities are whole numbers (the code has floats
and a tolerance of 1e-9); the choice of recipes is any menu of `Menus`; the
SELECT ... FOR UPDATE is one step.

The properties:

- `ReservedWithinMost`: an item never has more reserved than there was of it at
  some time. It is weaker than "than there is" because an edit may lower an item
  under its reservations; it still fails if two plans take the same share.
- `SeenIsComplete`, a part of `Inv`: what `reserve_plan` has read stays complete until its commit.
- `ListIsExact`: reservation and shopping list come from two reads with a commit in
  between. `IngredientsProvided`: together they are no less than the plan needs of
  every name that is measured in one base unit, whatever overlaps; the list adds
  amounts of a name regardless of units, so grams hide missing millilitres.
  `ListedOnlyMissing`: no more than that, as long as no item has been edited; after an
  edit another plan may hold items this one has never seen, and the list takes
  them away from what this one has.
- `ExpiringFirst`, `AckedPlanKept`: greedy order over all days; an acknowledged
  plan keeps items and reservations.
- `Inv`: among others, locks are held by requests between lock and commit only,
  which leave them in at most two steps and wait for nothing meanwhile: so no
  plan waits for ever, although this is not stated as a liveness property.

## Module ManualList

`POST /v1/shopping-list/items` has no entry in the cache: `look_up`,
`check_recipes`, `insert`, `commit`, `replay`, `refresh` and `die` are the steps
of `add_manual_shopping_list_items` for requests of one household with any keys.
`insert` waits for an uncommitted row with the same unique key and fails on a
committed one, as PostgreSQL does; `commit` makes the rows visible; `replay` is
the branch of `IntegrityError`. No key is another one followed by a colon (keys
are drawn by the app, `api_client.dart:144`), so the search by prefix finds the
rows of one key; an empty list inserts nothing, answers nothing and is exempt
from `AnswersAgree`.

## Module Membership

| action | code |
| --- | --- |
| `Receive` | `get_current_user`: the user with all memberships as attributes of the session, and the count that decides on a default household |
| `_ensure_default_household` | a new user's household, in two transactions |
| `Replay`, `respond` | the idempotency cache, under the user's id and the path |
| `create_household`, `join_household`, `add_member`, `set_active_membership`, `update_household` | `service.py` and `repository.py`, cut at the commits |
| `leave_household`, `remove_member`, `remove_membership`, `reactivate`, `drop_household`, `settle`, `update_member_role` | what happens after a departure, each commit an action |
| `Fail` | the request dies |

`households` and `members` are the tables, `held` the memberships the session
holds: decisions use these, also when the rows have changed, and what a query
returns are the rows of that moment with the attributes held. Properties about
overlapping requests are stated of what a member was told: `AckedMemberStays` and
`AckedLeaverStaysOut`, together `AckedChangesStay`. Those that begin with `Calm`,
together `CalmHouseholds`, hold as long as no
two requests overlap and none dies; they are about sequences (owners that leave,
last members, repeated joins) and fail when requests overlap, because the table
has no unique key and each operation is several commits.

## Modules EventStream and EventLog

A server process publishes (`Publish`) on the bus it has (Redis, or its memory
after the first error); a stream is `Connect`, `Subscribe`, `get_events_after`,
then `SendReplayed` and `SendQueued`, while `Pump` moves messages from Redis to
the bounded queue and `Break` ends the connection; `Outage` ends all pumps and
what Redis had to deliver, `Restore` brings it back with or without its history,
and `Expire` empties the history. `EventLog` is what readers are promised: the
next event, repetitions aside. The mapping excuses a member once something was
provably kept from it (an overflow, a place lost in the history, an outage);
without the excuse neither the refinement nor the liveness property holds, which
says precisely what the code does not repair: after an outage the processes no
longer share a bus, a dead pump leaves the stream open, and a place that has left
the history replays nothing.

Fairness: a client reconnects after a delay until it is disposed
(`sse_client.dart:36-101`); the tasks of a stream run on. Publications, breaks,
outages and expiry are not fair.

## Module Reminders

`get_preferences`, `create_default_preferences`, `update_preferences`,
`register_device` and `unregister_device` are cut between their lookup and their
write; `send_expiry_reminders` reads the clock once, then each user's
preferences, tokens and items in steps of their own, and pushes to one token at
a time. The day has three hours, which gives quiet hours that start before, end
after and wrap around midnight, and empty ones. `RunTellsExactlyTheDue` compares
what was pushed with a reference definition of quiet hours and due items, for
users nothing changed for; `AckedMuteIsKept` and `AckedRegistrationStays`, together
`AckedChangesStay`, are about those for whom something did.

## Modules Units, Expiry, Suggestions, Catalog and Kitchen

`Units` and `Expiry` are functions: spellings and base units, the merge of the
rules, shelf life and urgency. `Suggestions` is one request that ranks recipes or
plans days: every step of the planner's loop, the scores of both, the fallback
from one source of recipes to another, `derive_shopping_list`. `Catalog` is
concurrent: scans, photo drafts, uploads and new items between their
transactions, waiting for each other's unique keys, with outages of Redis
(which raise, since the exception that is caught is another class than the one
the library throws), failures and deaths. `Kitchen` composes them: what was
scanned and added is in the house when a suggestion is asked for.

A name is a record of brands, stem, ending and size, so that the normalisations
(of a scan, of the catalog, and of the scorer, which makes words singular) can
be told apart and composed without strings. Scores are whole numbers with a
common denominator. The properties relate two computations of the code:
`PlanIsCovered` (the planner's running inventory and the shopping list, which
starts again from the whole one), `AvailableIsCovered` (exact and singular
matching), `ScanAndItemAgree` (a name normalised once and twice),
`DatedByItsName` (the merged list of rules and a definition by priority),
`AddedOnce` (answers and repetitions: what was answered with success is not added
a second time; a repetition sent while the first still runs, or after its answer
has expired, is excused and recorded in `excused`). The runs
check them in groups: `AnswersAreRight`, `NamesAgree`, `DaysAreWellChosen` and
`RankingIsRight` are conjunctions of those of one subject.

Their premises are part of what they say: `PlanIsCovered` is about names
measured in one base unit, `FoodNeverHurts` about recipes of at most five
ingredients (with six, substitutes can outweigh what they replace),
`NothingPassedOver` about recipes that name no ingredient twice.

Fairness of `Kitchen`: each request's coroutine runs on and the services answer
or time out.

## Module OfflineSync

Three activities of the app interleave where they await: a call of the user, the
flush, and a synchronisation.

| action | code |
| --- | --- |
| `createInventoryItem`, `updateItem`, `updateItemStatus`, `SendCreate`, `SendChange`, `_cacheItems`, `RevertStatus`, `KeepLocally`, `_enqueue` | `inventory_repository_impl.dart`: try the server, else write locally and queue; a creation whose form has no date is kept with a time of day (`undated`) |
| `flushPendingMutations`, `FlushCreate`, `RefuseCreate`, `_retargetPendingMutations`, `DropLocal`, `_applyWithConflictResolution`, `_fetchServerItem`, `_rebasePendingMutations`, `PutSynced`, `_deleteMutation`, `FlushedAll` | `sync_manager.dart`, the head of the queue again and again; retargeting and rebasing one row at a time |
| `syncInventoryItems`, `SeePending`, `GetItems`, `clearAll`, `_replaceCache` | a synchronisation: flush, list, empty the table and fill it, reapply what is pending |
| `Connect`, `Disconnect`, `cleanupOrphanedItems` | the network; the end of the app, and what it removes when it starts again |
| `AnswerNotStored` | the server commits an item and fails, or dies, before it stores the answer under the key (`inventory/router.py:42-45`) |
| `Others` | another member's change on the server |

`OfflineSyncInvariants` holds the definitions its proofs are about, apart from the
proofs so that TLC can check them too.

A request is answered, or its answer is lost, or it does not arrive. Properties
are about what the server ends up with: `CreatedOnce`, and `CreationsAreKept` (a
creation is on the server or in the queue), `LastWriteWins` and `OthersAreKept`,
together `EditsAreKept`; each names its exceptions:

- the first attempt at a creation has another key than the queued one, so a lost
  answer means two items (`inventory_repository_impl.dart:73`); so does a server
  that fails between its commit and the storing of the answer;
- a creation that is kept without a date carries a full date-time, which the
  server's date field refuses (`inventory_repository_impl.dart:80`,
  `inventory/schemas.py:22`): the flush deletes it, and the item is lost, where
  `offline_sync_test.dart:70` expects such an item to be flushed;
- a direct change may be overwritten by an older one of the same column that is
  still queued;
- the merge takes the user's own earlier value for another member's where the
  local item is behind (after a synchronisation that was overtaken, or a status
  set locally just before the app ended; `conflict_resolver.dart:82`);
- a queued edit that still has the local id of its item is refused and deleted
  (`sync_manager.dart:242-250`);
- a creation that is sent again sets what is queued behind it back to the version
  of its first answer, forms made from a later version too
  (`sync_manager.dart:263-282`);
- the app may end when a form is in the table and not yet in the queue: the next
  form takes the value from there, or the server's comes back;
- a form behind others promises nothing of a field that it shows otherwise than it
  was promised, and a change none that is not made to what is pending;
- a form behind another mutation of its item, or sent again after its rebase, has
  the version of what it has never seen and overwrites other fields
  (`sync_manager.dart:284-302`);
- a conflict about an item that is used, by a lost first attempt or by another
  member, stops every flush (`firstWhere`, `sync_manager.dart:370`).

Fairness: the event loop runs calls on, the connection comes back, and the app,
which synchronises when its list is opened or refreshed, is used again and again.
Neither calls, nor changes of others, nor trouble is fair.

Abstractions: a request and its answer are one step; the snapshot of the local
table and its emptying are one step, as are its filling and the reapplication;
a mutation's place in the queue is the order of insertion (the device's clock
does not go back); answers do not leave the idempotency cache; one synchronisation
runs at a time, although a load starts two that may overlap
(`providers.dart:68-71`); signing in and out, and undo, which is never queued, are
left out.

## Runs

| run | bounds | shows |
| --- | --- | --- |
| `inventory_serial` | 3 requests one after the other, 2 members, 2 items, 3 keys | `ImplementsAtomicInventory`, `VersionsGrow` |
| `inventory_overlap` | 2 requests that may overlap, 1 may die, 1 member, 1 item, there at the start, 2 keys | `AckedIsLogged`, `RefusedHasNoEffect`, `PublishedIsLogged`, `EventsReportCommittedStates`, `RetryAfterAckIsReplayed`, `ChangeReachesMembers`, and `Inv`, the invariant that is proved |
| `inventory_lost_update` | 2 updates | violated: `NoLostUpdate`, see below |
| `plans_stable` | 3 requests, 2 members, 2 items of one name, grams, "kilograms" of 2 g, and millilitres, no edits, no crash | `ListIsExact`, `ExpiringFirst`, `AckedPlanKept` |
| `plans_edited` | 2 requests, 1 may die, 2 items, 2 writes | `ReservedWithinMost`, and `Inv`, the invariant that is proved, with `SeenIsComplete` |
| `manual_list` | 3 requests, 2 keys, lists of up to 2 entries, 1 may die | `BatchIsWhole`, `AnswersAgree`, `ConflictIsReplayed` |
| `membership` | 3 requests of 2 of 3 users, who start in one household, up to 3 households, one request may overlap or die | `AckedChangesStay`, `CalmHouseholds`, `TypeOK` |
| `event_stream` | 1 listener, 2 processes, 4 events, queue of 2, history of 3, 2 broken connections, 1 outage | `DeliversInOrder` (refinement), `ReplayIsExact`, `EventsReachReaders`, `TypeOK` |
| `reminders` | 3 requests, 2 users, 1 device, 1 item, 1 run, 1 overlap or death, 1 change of items or memberships | `RunTellsExactlyTheDue`, `AckedChangesStay`, `CalmRunsThrough`, `TypeOK` |
| `reminders_defaults` | 1 request, 1 run | violated: `DefaultsRemind`, see below |
| `kitchen` | 3 requests, 1 piece of trouble, 2 barcodes, 2 places, 5 inventories, 4 recipes, 9 questions | `AnswersAreRight`, `NamesAgree`, `EveryoneIsAnswered`; `PlanIsCovered`, `RankingIsRight`, `DaysAreWellChosen`; `TypeOK` |
| `offline_sync` | 2 calls of the user, 1 change of another member and 1 piece of trouble, 3 of these in all; any number of flushes and synchronisations | `CreatedOnce`, `EditsAreKept`, `QueueDrains`, `ViewConverges`, `TypeOK` |

Why these bounds. Inventory: three requests, one after the other, are enough for
a change, a second change or removal and an undo or repetition of either, and two
items for one that is there and one that is created; two requests that overlap are
enough for every pair of interleaved handlers, and one item that is there, since
requests on different items meet only in the log; two keys for equal and
different ones. Plans: two items of one name make
the order and the split over items matter; menus ask for less, as much and more
than there is, in one and in two lines; three requests are two plans and a
deletion, or three plans; two writes use one item and add or change another.
Membership: a third request observes, or repeats, what two others have done;
three users make an owner, an heir and one more. Event stream: a queue of 2 and
a history of 3 both overflow within 4 events; listeners do not interact, so one
is enough. Reminders: one run beside a request and a change shows every order of
reading and writing. Kitchen: two scans and an item that follows from one of
them; the inventories and recipes hold names with two brands, in the singular
and the plural, in different units of one base, expired, inactive and with
substitutes. Offline: two calls are a creation and its edit, two edits of an item
or an edit and its use; the other member changes a field of the form that the
user does not, or deletes the item; trouble is one lost answer, answer not stored,
lost connection or end of the app. Requests, keys, members and contents are interchangeable and
permuted by symmetry where no liveness is checked. Deadlock is not checked:
when every request has been sent the system rests.

Fairness of `Inventory` (`FairSpec`): weak fairness of the steps of each
request. A coroutine is resumed when what it awaits completes, database and
Redis calls complete or raise, and no handler holds a lock while it awaits
another request. Neither the arrival of requests, nor crashes, nor planning is
fair. The other modules' fairness is given with them; no fairness is assumed of
`Reservations`, `ManualList`, `Membership` and `Reminders`, of which only safety
is checked.

### Where the documents say more than the code does

With a run each (what the properties except is listed with them and, with its
line, under the hazards in `PROJECT.json`, where a note says what of a hazard no
property covers):

- `inventory_lost_update`: README.md:19 announces optimistic concurrency; two
  overlapping requests that expect version 1 are both accepted (`repository.py:56`).
- `reminders_defaults`: the model and its tests have reminders on by default; a
  user without a row of preferences gets none, since the run builds an object
  whose defaults are only applied by an insertion (`tasks.py:79`).

Met while modelling, and visible as the premises and exceptions of the
properties above: a repetition before the first answer is executed again
(`inventory/router.py:38`); a removal is logged before a deletion that can fail
(`inventory/service.py:173-182`), and one that deletes no row is answered 204
(`inventory/repository.py:89-101`); a plan reserves from quantities older than its
lock (`planning/service.py:46`); reservations of later plans count against an
older inventory in the shopping list (`planning/service.py:106`), so that after an
edit the list may name what is reserved, where SPEC.md:139 has it list missing
items only; grams are compared with pieces (`shopping_list.py:59`); a household whose deletion a
foreign key refuses stays without members (`households/service.py:104`);
overlapping joins leave two memberships (`households/service.py:75`); a second
row of preferences breaks off the reminder run for everybody after it
(`tasks.py:76-79`); and the list of the module OfflineSync.

## Proofs

Every theorem is proved from the named assumption of its module alone, which says
of the constants what the code says of them (their types, that `None` or `Null`
is no other value, that a table starts with different ids), for any number of
requests, users, items and so on, and without the bounds of the runs. The
argument is always the same: an inductive invariant stronger than the property,
one lemma for each action (or, where an action disturbs several parts, one for
each part), and a last step in temporal logic. The invariants were checked by TLC
in the setting of the module's run before they were proved; those named `Inv` are
properties of a run.

| module | theorems | the invariant, and why the property alone is not inductive |
| --- | --- | --- |
| `InventoryProofs` | `TypeCorrectness`, `AckedLogged`, `RefusedNoEffect`, `PublishedLogged`, `EventsReal`, `RetryReplayed`, `Invariant`; `ChangesAreAtomic`, `VersionsAlwaysGrow` | `Inv`, `SerialInv` |
| `ReservationsProofs` | `ReservationsInvariant`, `SeenComplete`, `AckedKept`, `TypeCorrectness`, `NeverOverbooked`, `ExpiringTakenFirst`, `ListsAreExact` | `Inv`, `ListInv` |
| `ManualListProofs` | `ManualListInvariant`, `StoredWhole`, `SameAnswer`, `AlwaysReplayed` | `Inv` |
| `MembershipProofs` | `TypeCorrectness`, `AckedChangesAreKept`, `CalmHouseholdsStayInOrder` | `KeptInvariant`, `CalmInvariant` |
| `EventStreamProofs` | `TypeCorrectness`, `ReplayExactness`, `StreamKeepsThePromise` | `StreamInvariant` |
| `RemindersProofs` | `TypeCorrectness`, `RunsTellExactlyTheDue`, `AckedChangesAreKept`, `CalmRunsGoThrough` | `RemindersInvariant` |
| `KitchenProofs` | `CatalogInvariantHolds`, `AnswersTellOfWhatIsStored`, `NamesAlwaysAgree`; `SuggestionInvariantHolds`, `KitchenTypeCorrect`, `PlansAreCovered`, `RankingsAreRight`, `EveryDayIsWellChosen` | `CatalogInv`, `SuggestInv` |
| `OfflineSyncProofs` | `TypeCorrectness`, `CreatedOnceHolds`, `OthersAreKeptHolds`, `EditsAreKeptHolds` | `TypeOK`, `CreationsInv`, and `CreationsOK`, `CreationsAreKept`, `SyncInv`, `TheirsInv`, `PromisesInv` of `OfflineSyncInvariants` |

**Inventory.** `StageInv`: what a request holds at the stage where it uses it
(needed for the type of what it writes). `TraceInv`: which traces (a change, an
event, a publication) a request has left at each stage; the answers follow from
the stage. `OnceInv`: no two events and no two publications of one request.
`PastInv`: every state in the tables, in a session or in the log is one the item
had; needs that the event picked by an undo is one of the same item. `CacheInv`: a
key stands for one operation, so an entry is overwritten only by an answer of the
same operation, and an answered request has an entry. `RemovalInv`: a removal that
finds no row left to delete, or has found none, was overtaken: its item was there at
its SELECT, so whoever deleted it did so since, and the two were in flight together.

`ChangesAreAtomic` is the refinement of `AtomicInventory` and `VersionsAlwaysGrow`
the action property, both under the hypothesis `Serial` (one request at a time,
none dies, no reservation forbids a deletion), the setting of `inventory_serial`.
It is a real restriction: with overlap both are false, as `inventory_lost_update`
shows. The refinement maps a state in the middle of a request to the one before
or after it; `SerialAt` says that nothing moved under the request in flight,
`LogTells` that the log of each item ends in its present state, `RemovedIsLast`
that an undo of a removal finds the item gone. Versions grow over a removal and
its undo because of `VersionsTop`: the version of a row, or of the last removal
of an item that is gone, is above all there ever were.

**Reservations.** A request between its lock and its commit holds exactly the
items it chooses from (`LocksInv`), so no other plan that chooses from them can
commit, because it would hold them too; reservations other than its own that a
commit adds are of items its request holds; and an item with a reservation cannot
be removed (`StagesInv`, `PlansInv` carry which plan a deletion may touch). That
no item is overbooked (`NeverOverbooked`) is about sums: what a plan has seen
reserved is all there is (`SeenIsComplete`), and no session believes in more of an
item than there was at some time (`AmountsInv`). The library's folds come without
theorems, and its induction takes an operator, so sums are reasoned about as sets:
the set of the sets of numbers for which a fact holds is closed under adding an
element, hence holds every finite set (`WellFoundedInduction`). The same way
proves that the greedy shares of a line add up.

`ListsAreExact` needs `ListInv`. `MadeInv`: once a plan has reserved, it has no more of
a name than it needs, and either all it needs or all there is: a line takes its
need or all that is free (`LineTakes`), and where one goes short no other plan
holds anything of its name, or the request would have been refused
(`ShortTakesAll`). So the list, which subtracts from the need what there is less
what others hold, gives what is missing. `UneditedInv`: until an item is edited
every session sees the items as they are and every reservation is of an item every
plan sees; with `NeverOverbooked` the plan and all others together hold no more of
a name than there is (`OthersLeaveRoom`), so nothing is listed that is reserved.
The proof found that `ListIsExact`, as it was stated before, held in the run only
because the run had one base unit and no edits. With grams and millilitres, or one
edit, TLC finds it violated; the property now says under which conditions it
holds, the run has millilitres too, and the actions are what they were.

**Manual list.** The commit needs that inserted rows clash neither with stored
ones nor with those of another inserted request (`ProgressInv`), and that every row
is one its request wanted (`RowsInv`). Two lists with one key clash at their first
rows, whatever their lengths (`FirstRowsClash`).

**Membership.** What a member was told holds only because of what a request has
done before it answers: `MemberKept` and `LeaverKept` say it of every stage at
which the change is made, `Ids` that a row found by id is still the same
membership, `NoSecondEffect` that a call answered before is in the cache and does
nothing again, `Progress` what is settled at each stage.

`CalmHouseholdsStayInOrder` is about requests that come one by one, so at most one
is in flight (`CalmIsSerial`); when another comes or one dies, nothing more is
claimed. In the middle of a request the households are not in order: one may
have lost its owner, a user the active membership. `CalmInvariant` says which
household the request has still to endow (`Endows`) and which user to rouse
(`Rouses`) at its stage, and that all others have exactly one owner and one active
membership; `InOrder` is what it counts on when it does so: the session agrees
with the rows (`Agrees`; when a departure settles, only with the roles), the heir is
still a member, and the household to drop is empty. The hypothesis `Orderly` says
the same of the memberships there are at the start, for which TLC checks it in
`MCMembership`; without it the first request could already meet two memberships
of one user in a household.

**Event stream.** Without an outage every history is a run of consecutive events up
to the newest, what a queue and its channel hold is one too, and the rest of a
replay ends at the newest event there was when it began (`InOrder`); the places
where these meet give both the exactness of a replay and the step of the
refinement: every delivery is the next event, or one delivered before. `OneBus`:
without an outage no process has changed its bus.

**Reminders.** `SteadyServed` follows a user nothing changes for through the run:
what was pushed, what is pending and what is due at each stage; `MuteKept` and
`RegistrationKept` follow a change through the handlers, as in Membership;
`CalmRows` is one row per user while requests come one by one, whence no run
breaks off.

**Catalog.** `CatalogInv` is an invariant of one request at a time. `KeyOf`: requests
with one key are one call, which is why a replay (`EntriesInv`) tells of what the
first of them did. `ScanOf`: a scan holds the ingredient of the name it tells, in
the tables or in its own transaction, and what it has read of the barcode is
still there or replaced. `ItemOf` and `RightItem`: an item in the making, and one
made, is of a name an answer told, so that two normalisations meet. `PhotoOf`: what
is stored before the answer. `RepeatsInv`: if two requests make one call and the later
one runs, or has added an item, the earlier is over and was not answered with success,
for its answer would be in the cache, or the call is excused. `CalmOf`: what a request that runs alone has read is
still so. `DatedByItsName` rests on what the merge of the rules returns for every
sequence of rules (`MergedIs`): a later rule replaces the one of its name and place
where it is, or is appended. `Words` is the set of words names are made of; the
proofs use only that it holds the four the code names.

**Suggestions.** `SuggestInv` follows one question through its stages. `AskInv`: what
is asked, and that the stock is a finite set of food. `PlanInv`: `Covering`, that for
every name whose lines are all in the base unit of the stock, what is left of it is
what there was less what the days so far require, and never below zero; it is a
fold over the lines of a day inside a fold over days, against a sum over all lines
of all days (`PlanIsCovered` compares them when the plan is done). `RankInv`: every
recipe a source tells of has the id of one of `Recipes` and no tag that one has not
(`Sound`), and what is shown keeps to the diet. The rest is about the operators: that sums grow
with what is added (`FoodNeverHurts`: an ingredient that arrives is worth at least
what its two substitutes were, which is arithmetic over one to five ingredients
and the reason for the bound in the property), that an exact name is also found
among the singulars, and that the score of a recipe that uses more food is higher
in its first component (`NothingPassedOver`). Besides the types, the assumption says
that no name has more than two substitutes, which is so in the table of the code.

**Offline.** A creation makes one item because its key is either in the queue, in
the answers, or neither: `CreationsInv` says that a creation under way, or queued
and without an answer, has made none, `MadeOnce` that different items were made by
different creations, `UndatedInv` that the item of a creation kept without a date is made, if
at all, by the attempt before it was kept (together `CreationsOK`). `TypeOK` is an
invariant in itself here: retargeting, rebasing
and the fold with which a synchronisation applies what is pending keep ids, rows
and columns what they are.

`EditsAreKept` says what the server ends up with when nothing is pending, so its
invariant has to say what is still on its way. It is in layers:

- `SyncInv`: nothing the app holds (tables, queue, the call, what the flush and the
  synchronisation carry) is ahead of the server's version, and an answer that has
  the server's version has its values (`NotAhead`, `Honest`). So a mutation is either
  taken as it is, with a version that is the server's, or merged.
- `TheirsInv`: what another member gave is the server's value, and every form, row
  and pending mutation that could be sent as it is shows it. This proves
  `OthersAreKept` for items without a form that was `resent`.
- `Chains`: of a column that is promised, the pending mutations that set it make a
  chain: each starts from what the one before gives, the last one gives what the
  user was told, and the server has what the first starts from or what one of them
  gives. Every step of the queue (enqueuing, sending, merging, retargeting, rebasing,
  removing, the app's end) keeps this for promises that it does not break; a form
  that is merged and does not change the column is a `Bystander` and no link.
- `OpRow`, `LooseRows` (`Knows`): a field that a form repeats without changing it is the
  server's, or what a pending mutation gives, which is why repeating it breaks no
  chain. `MadeFrom`: a creation sent again has the values of the first attempt.

`CreationsAreKept` needs that a creation leaves the queue only once its item is made,
or is refused for its date (`FlushInv`); a promise is made only when a creation is
answered or queued, or a change is made to an item that is there or pending
(`BuiltOnSomething`). The chains need that no state of an item is
`Null`, which the assumption says of `Values` and the four states.

The proof found what the run could not: in the form it had before, `EditsAreKept`
held in the run only because of its bounds. A creation that is sent again sets
later forms back to version 1, and a form that repeats an older value overwrites
what it repeats. The history variables `mine` and `touched`, which state the promise,
now say so; the actions are what they were.

### Model-checked only

- Liveness (`ChangeReachesMembers`, `EventsReachReaders`, `EveryoneIsAnswered`,
  `QueueDrains`, `ViewConverges`): fairness and ENABLED are beyond the prover.
- The two violated properties, which are shown by counterexample.

Every invariant and action property of the passing runs is a theorem.

## Not modelled

- Analytics, telemetry and the log of AI calls: written, never read by the system.
- The dashboard (read-only queries and charts), the app's widgets and navigation,
  and the Terraform code keep no state that the components above depend on.
- Reading requests without effects (lists, the latest plan, the derived shopping
  list, the activity log) and the bodies of answers beyond what the app or a
  property uses.
- In the inventory: several households at once, the memory cache of a
  development setup, and equal timestamps of two events of one member.
- In households: renaming, names and invite codes other than as a household's id.
- In the event stream: listeners of several households, and a reconnection of
  Redis' subscription inside its client library.
- In reminders: what the push service answers, platforms and wording.
- In the catalog and suggestions: text and images themselves, amounts as floating
  point numbers, what an outside recipe contains that is not well-formed, and
  conversion helpers nothing calls.
