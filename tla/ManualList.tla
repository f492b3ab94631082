----------------------------- MODULE ManualList -----------------------------
(***************************************************************************)
(* POST /v1/shopping-list/items: what members add to the shopping list of  *)
(* their household by hand.  This write has no entry in the idempotency    *)
(* cache: its rows carry the key, a unique constraint over household and   *)
(* key keeps them single, and a request that runs into it answers with the *)
(* rows that are there.  A list is stored with keys "key:0", "key:1", ...  *)
(*                                                                         *)
(* Requests of all members of one household.  Keys are such that none is   *)
(* another one followed by a colon, so the search by prefix finds exactly  *)
(* the rows of a key.                                                      *)
(***************************************************************************)
EXTENDS Naturals, Sequences, FiniteSets

CONSTANTS
  Reqs,     \* requests
  Keys,     \* idempotency keys
  Entries,  \* what an entry of the list can be
  MaxLen,   \* bound on the entries of a request
  MaxFail,  \* bound on the requests that die
  None      \* None

(* "known": the recipes the entries refer to exist.                        *)
Batches == UNION {[1..n -> Entries] : n \in 0..MaxLen}
Calls == [key : Keys, batch : Batches, known : BOOLEAN]

ASSUME ManualListAssumption ==
  /\ MaxLen \in Nat
  /\ None \notin Calls \cup {"201", "404", "500"}

Row == [key : Keys, index : Nat, entry : Entries, by : Reqs]

VARIABLES
  rows,    \* the table shopping_list_items
  pc,      \* where each request is
  call,    \* what it asks
  answer,  \* the rows it answers
  code     \* the status code answered

vars == <<rows, pc, call, answer, code>>

Stages == {"idle", "received", "checked", "adding", "inserted", "conflict",
           "committed", "done", "failed"}

TypeOK ==
  /\ rows \subseteq Row
  /\ pc \in [Reqs -> Stages]
  /\ call \in [Reqs -> Calls \cup {None}]
  /\ answer \in [Reqs -> SUBSET Row]
  /\ code \in [Reqs -> {None, "201", "404", "500"}]
  /\ \A r \in Reqs : pc[r] # "idle" => call[r] # None

Init ==
  /\ rows = {}
  /\ pc = [r \in Reqs |-> "idle"]
  /\ call = [r \in Reqs |-> None]
  /\ answer = [r \in Reqs |-> {}]
  /\ code = [r \in Reqs |-> None]

Advance(r, stage) ==
  /\ pc' = [pc EXCEPT ![r] = stage]
  /\ UNCHANGED <<answer, code>>

Finish(r, status, found) ==
  /\ pc' = [pc EXCEPT ![r] = "done"]
  /\ code' = [code EXCEPT ![r] = status]
  /\ answer' = [answer EXCEPT ![r] = found]

Receive(r, c) ==
  /\ pc[r] = "idle"
  /\ call' = [call EXCEPT ![r] = c]
  /\ Advance(r, "received")
  /\ UNCHANGED rows

(* Slip: only a row with the bare key is looked for.                       *)
rows_with_bare_key(key) == {}

list_manual_items_by_idempotency(key) == {x \in rows : x.key = key}

Existing(r) == list_manual_items_by_idempotency(call[r].key)

(* The first look: rows of an earlier request are the answer.              *)
look_up(r) ==
  /\ pc[r] = "received"
  /\ IF Existing(r) = {} THEN Advance(r, "checked") ELSE Finish(r, "201", Existing(r))
  /\ UNCHANGED <<rows, call>>

check_recipes(r) ==
  /\ pc[r] = "checked"
  /\ IF call[r].known THEN Advance(r, "adding") ELSE Finish(r, "404", {})
  /\ UNCHANGED <<rows, call>>

Created(r) == {[key |-> call[r].key, index |-> n, entry |-> call[r].batch[n], by |-> r] :
                 n \in DOMAIN call[r].batch}

SameUniqueKey(x, y) == x.key = y.key /\ x.index = y.index

Clash(r, others) == \E x \in Created(r), y \in others : SameUniqueKey(x, y)

(* The INSERT waits for a transaction that has inserted the same key and   *)
(* is not over; it fails on a committed row.                               *)
insert(r) ==
  /\ pc[r] = "adding"
  /\ \A q \in Reqs : pc[q] = "inserted" => ~Clash(r, Created(q))
  /\ Advance(r, IF Clash(r, rows) THEN "conflict" ELSE "inserted")
  /\ UNCHANGED <<rows, call>>

(* Slip: the first row is committed on its own.                            *)
commit_first(r) ==
  /\ pc[r] = "inserted"
  /\ rows' = rows \cup {x \in Created(r) : x.index = 1}
  /\ Advance(r, "committed")
  /\ UNCHANGED call

commit(r) ==
  /\ pc[r] = "inserted"
  /\ rows' = rows \cup Created(r)
  /\ Advance(r, "committed")
  /\ UNCHANGED call

(* Slip: after the conflict the request answers what it wanted to add.     *)
answer_created(r) ==
  /\ pc[r] = "conflict"
  /\ Finish(r, "201", Created(r))
  /\ UNCHANGED <<rows, call>>

(* After the rollback it looks again, and raises if there is still nothing.*)
replay(r) ==
  /\ pc[r] = "conflict"
  /\ IF Existing(r) # {} THEN Finish(r, "201", Existing(r)) ELSE Finish(r, "500", {})
  /\ UNCHANGED <<rows, call>>

refresh(r) ==
  /\ pc[r] = "committed"
  /\ Finish(r, "201", Created(r))
  /\ UNCHANGED <<rows, call>>

(* The process dies, and the database rolls back.                          *)
die(r) ==
  /\ pc[r] \notin {"idle", "done", "failed"}
  /\ Cardinality({q \in Reqs : pc[q] = "failed"}) < MaxFail
  /\ Advance(r, "failed")
  /\ UNCHANGED <<rows, call>>

Next == \E r \in Reqs :
  \/ \E c \in Calls : Receive(r, c)
  \/ look_up(r)
  \/ check_recipes(r)
  \/ insert(r)
  \/ commit(r)
  \/ replay(r)
  \/ refresh(r)
  \/ die(r)

Spec == Init /\ [][Next]_vars

---------------------------------------------------------------------------
(* All rows of a key come from one request, and all rows of that request   *)
(* are there: lists that overlap in time are never mixed or cut short.     *)
BatchIsWhole ==
  \A x \in rows :
    /\ Created(x.by) \subseteq rows
    /\ \A y \in rows : y.key = x.key => y.by = x.by

(* test_post_shopping_list_items_idempotent_replay: whoever sends a list   *)
(* with a key is answered the rows stored for the key, first or not,       *)
(* whatever overlaps.                                                      *)
AnswersAgree ==
  \A r \in Reqs : (code[r] = "201" /\ call[r].batch # <<>>) =>
    /\ answer[r] # {}
    /\ answer[r] = {x \in rows : x.key = call[r].key}

(* A request that runs into the constraint always finds whose rows it ran  *)
(* into: the way back through the second look never ends in an error.      *)
ConflictIsReplayed == \A r \in Reqs : code[r] # "500"

(* The invariant behind them: where rows come from, and what a request in  *)
(* each stage can count on.                                                *)
RowsInv == \A x \in rows : pc[x.by] # "idle" /\ x \in Created(x.by)

ProgressInv ==
  \A r \in Reqs :
    /\ pc[r] \in {"idle", "received", "checked", "adding", "inserted", "conflict",
                  "committed", "failed"} => code[r] = None
    /\ pc[r] = "conflict" => Existing(r) # {}
    /\ pc[r] = "inserted" => /\ ~Clash(r, rows)
                             /\ \A q \in Reqs \ {r} : pc[q] = "inserted" => ~Clash(r, Created(q))
    /\ pc[r] = "committed" => Created(r) \subseteq rows

Inv == TypeOK /\ RowsInv /\ ProgressInv /\ BatchIsWhole /\ AnswersAgree /\ ConflictIsReplayed
=============================================================================
