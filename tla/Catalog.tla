------------------------------ MODULE Catalog ------------------------------
(***************************************************************************)
(* From a scan to an item: POST /v1/scan/barcode, /v1/scan/photo,          *)
(* /v1/scan/photo/upload, and the way POST /v1/items gives a new item its  *)
(* canonical ingredient and its expiry date (its log entry and event are   *)
(* the subject of the module Inventory).                                   *)
(*                                                                         *)
(* Requests are coroutines with a session each; an action ends where the   *)
(* code awaits.  canonical_ingredients.name and product_barcodes.barcode   *)
(* are unique: whoever writes a value another transaction has written and  *)
(* not committed waits for its end.  The idempotency cache is Redis, as in *)
(* production: its client's errors are not the RedisError that             *)
(* RedisIdempotencyCache catches, so that without Redis get and set raise, *)
(* and its memory fallback, which only caught errors fill, stays empty.    *)
(*                                                                         *)
(* Names are the records of Suggestions; a canonical ingredient is its     *)
(* name.  The log of calls to services, which nothing reads, is left out.  *)
(***************************************************************************)
EXTENDS Expiry, FiniteSets

CONSTANTS
  Reqs,        \* requests, numbered in the order in which they are received
  Users,       \* users
  Allowed,     \* the users the paid photo parser is there for
  Barcodes,    \* barcodes
  Products,    \* the names the product database may tell for each barcode
  Photos,      \* the messages the photo parser may answer with
  Words,       \* the words that names are made of, their endings, and what a rule calls a place
  Places,      \* where an item is stored
  Builtin,     \* SHELF_LIFE_DAYS
  DbRules,     \* the table shelf_life_rules
  MaxTrouble,  \* bound on requests received while another runs, outages, failures, deaths
  Null         \* None and null

(* A name: the brands before the word, its stem and its ending, and        *)
(* whether a size follows.                                                 *)
Name == [brands : Seq(Words), stem : Words, ending : Words, sized : BOOLEAN]
Drafts == [display_name : Name \cup {Null}, canonical_name : Name \cup {Null}]
RuleRows == [name : Name, place : Words, days : Int]

Codes == {"200", "replay", "403", "422", "500", "failed"}

Calls ==
  [op : {"barcode"}, user : Users, key : Reqs, barcode : Barcodes, from : {Null}, place : {Null}]
  \cup [op : {"photo", "upload"}, user : Users, key : Reqs,
        barcode : {Null}, from : {Null}, place : {Null}]
  \cup [op : {"item"}, user : Users, key : Reqs, barcode : {Null}, from : Reqs, place : Places]

ASSUME CatalogAssumption ==
  /\ Reqs \subseteq Nat /\ Allowed \subseteq Users /\ MaxTrouble \in Nat
  /\ Null \notin Reqs \cup Users \cup Name \cup Codes
  /\ {"ketchup", "tomato", "", "es"} \subseteq Words
  /\ Products \in [Barcodes -> SUBSET Name]
  /\ Photos \subseteq [parsed : Seq(Drafts) \cup {Null}, content : Seq(Drafts) \cup {Null}]
  /\ Builtin \in Seq(RuleRows) /\ DbRules \in Seq(RuleRows)

VARIABLES
  canonicals,  \* the table canonical_ingredients
  products,    \* the table product_barcodes: the ingredient of each barcode
  items,       \* the items added, each named by its request
  files,       \* the requests whose photo is stored
  entries,     \* the idempotency cache: the request whose answer it holds
  up,          \* Redis is there
  tx,          \* where each request is and what it holds
  excused,     \* history: the keys whose answer has expired, or that were sent again too early
  trouble      \* history: how much has gone wrong

catalog == <<canonicals, products, items, files, entries, up, tx, excused, trouble>>

(* "told" are the names its answer gives, "name" the canonical name looked *)
(* up, "loaded" the ingredient it saw of its barcode, "fresh" and "wrote"  *)
(* its own uncommitted writes; "calm" is history: nothing ran beside it    *)
(* and nothing failed around it.                                           *)
Idle == [at |-> "idle", call |-> Null, told |-> {}, name |-> Null, loaded |-> Null,
         fresh |-> FALSE, wrote |-> FALSE, code |-> Null, calm |-> TRUE]

CatalogInit ==
  /\ canonicals = {} /\ products = [b \in Barcodes |-> Null]
  /\ items = {} /\ files = {} /\ entries = <<>> /\ up = TRUE
  /\ tx = [r \in Reqs |-> Idle] /\ excused = {} /\ trouble = 0

Running(r) == tx[r].at \notin {"idle", "done"}
Goto(r, at) == tx' = [tx EXCEPT ![r].at = at]

(* Slip: the connection is not rolled back.                                *)
ended_in_transaction(t, code) == [t EXCEPT !.at = "done", !.code = code]

(* A request that ends rolls back what it has not committed.               *)
Ended(t, code) == [t EXCEPT !.at = "done", !.code = code, !.fresh = FALSE, !.wrote = FALSE]
End(r, code) == tx' = [tx EXCEPT ![r] = Ended(@, code)]

Spends == trouble < MaxTrouble /\ trouble' = trouble + 1
Trouble == Spends /\ UNCHANGED excused
NoTrouble == UNCHANGED <<excused, trouble>>

----------------------------------------------------------------------------
(* Names.                                                                  *)
Word(stem, ending) == [brands |-> <<>>, stem |-> stem, ending |-> ending, sized |-> FALSE]

EXACT_VARIANTS(name) ==
  IF name = Word("tomato", "") THEN Word("tomato", "es") ELSE name

(* Of several brands only the first is taken away.                         *)
normalize_ingredient_name(name) ==
  IF name.stem = "ketchup" THEN Word("ketchup", "")
  ELSE EXACT_VARIANTS([name EXCEPT !.sized = FALSE,
                         !.brands = IF name.brands = <<>> THEN <<>> ELSE Tail(name.brands)])

(* What the model has parsed itself comes before what it has written.      *)
_extract_content(message) ==
  IF message.parsed # Null THEN message.parsed
  ELSE IF message.content # Null THEN message.content ELSE <<>>

(* Drafts without a display name are dropped; a name the parser gives is   *)
(* kept, or else made from the display name.  Quantities and confidences,  *)
(* which are cut to their range, are left out.                             *)
DraftNames(raw) ==
  {IF raw[k].canonical_name # Null THEN raw[k].canonical_name
   ELSE normalize_ingredient_name(raw[k].display_name) :
     k \in {j \in DOMAIN raw : raw[j].display_name # Null}}

----------------------------------------------------------------------------
(* The idempotency cache.                                                  *)
_scoped_key(c) == <<c.user, c.op, c.key>>

(* Slip: an answer is looked for under its key alone.                      *)
get_unscoped(c) ==
  IF ~ up THEN "raises" ELSE IF <<c.key>> \in DOMAIN entries THEN "hit" ELSE "miss"

get_cached(c) ==
  IF ~ up THEN "raises" ELSE IF _scoped_key(c) \in DOMAIN entries THEN "hit" ELSE "miss"

_check_photo_scan_allowlist(c) == c.op = "photo" => c.user \in Allowed

FirstStep == [barcode |-> "lookup", item |-> "select", photo |-> "parse", upload |-> "upload"]

(* A key is named by the first request sent with it; a call that is sent    *)
(* again keeps its key.                                                    *)
KeyDiscipline(r, c) == c.key = r \/ (c.key < r /\ tx[c.key].call = c)

(* An item is added from an answer that told its name.                     *)
Knows(c) == c.op = "item" => /\ tx[c.from].code \in {"200", "replay"}
                             /\ tx[c.from].call.user = c.user
                             /\ tx[c.from].told # {}

Receive(r, c) ==
  LET others == {s \in Reqs \ {r} : Running(s)}
      start == [Idle EXCEPT !.call = c, !.calm = (others = {} /\ up)]
      origin == tx[entries[_scoped_key(c)]]
  IN  /\ tx[r].at = "idle" /\ \A s \in Reqs : s < r => tx[s].at # "idle"
      /\ KeyDiscipline(r, c) /\ Knows(c)
      /\ IF others = {} THEN UNCHANGED trouble ELSE Spends
      /\ excused' = excused \cup {_scoped_key(c) : s \in {s \in others : tx[s].call = c}}
      /\ \E name \in IF c.op = "item" THEN tx[c.from].told ELSE {Null} :
           LET begun ==
                 IF ~ _check_photo_scan_allowlist(c) THEN Ended(start, "403")
                 ELSE IF get_cached(c) = "raises" THEN Ended(start, "500")
                 ELSE IF get_cached(c) = "hit" THEN [Ended(start, "replay") EXCEPT !.told = origin.told, !.name = origin.name]
                 ELSE [start EXCEPT !.at = FirstStep[c.op],
                         !.name = IF c.op = "item" THEN normalize_ingredient_name(name) ELSE Null]
           IN  tx' = [s \in Reqs |-> IF s = r THEN begun
                        ELSE IF Running(s) THEN [tx[s] EXCEPT !.calm = FALSE] ELSE tx[s]]
      /\ UNCHANGED <<canonicals, products, items, files, entries, up>>

store_cached(r) ==
  /\ tx[r].at = "store"
  /\ IF up THEN /\ LET own == _scoped_key(tx[r].call)
                   IN  entries' = [key \in DOMAIN entries \cup {own} |->
                                     IF key = own THEN r ELSE entries[key]]
                /\ End(r, "200")
     ELSE End(r, "500") /\ UNCHANGED entries
  /\ NoTrouble /\ UNCHANGED <<canonicals, products, items, files, up>>

----------------------------------------------------------------------------
(* The services.                                                           *)
Fails(r, code) ==
  /\ Trouble
  /\ tx' = [tx EXCEPT ![r] = [Ended(@, code) EXCEPT !.calm = FALSE]]

_map_product(raw) == normalize_ingredient_name(raw)

(* Slip: the name told is taken for the canonical name.                    *)
lookup_as_told(r) ==
  /\ tx[r].at = "lookup"
  /\ \/ \E raw \in Products[tx[r].call.barcode] :
          tx' = [tx EXCEPT ![r] = [@ EXCEPT !.at = "select", !.told = {_map_product(raw)},
                                            !.name = _map_product(raw)]]
        /\ NoTrouble
     \/ Goto(r, "commit") /\ NoTrouble
     \/ Fails(r, "500")
  /\ UNCHANGED <<canonicals, products, items, files, entries, up>>

(* A product that is not known is answered with an empty name.             *)
lookup_barcode(r) ==
  /\ tx[r].at = "lookup"
  /\ \/ \E raw \in Products[tx[r].call.barcode] :
          LET told == _map_product(raw)
          IN  tx' = [tx EXCEPT ![r] = [@ EXCEPT !.at = "select", !.told = {told},
                                                !.name = normalize_ingredient_name(told)]]
        /\ NoTrouble
     \/ Goto(r, "commit") /\ NoTrouble
     \/ Fails(r, "500")
  /\ UNCHANGED <<canonicals, products, items, files, entries, up>>

parse_image(r) ==
  /\ tx[r].at = "parse"
  /\ \/ /\ \E raw \in Photos :
             tx' = [tx EXCEPT ![r] = [@ EXCEPT !.at = "store",
                                               !.told = DraftNames(_extract_content(raw))]]
        /\ NoTrouble
     \/ Fails(r, "422")
  /\ UNCHANGED <<canonicals, products, items, files, entries, up>>

upload(r) ==
  /\ tx[r].at = "upload"
  /\ \/ files' = files \cup {r} /\ Goto(r, "url") /\ NoTrouble
     \/ Fails(r, "500") /\ UNCHANGED files

generate_signed_url(r) ==
  /\ tx[r].at = "url" /\ UNCHANGED files
  /\ \/ Goto(r, "store") /\ NoTrouble
     \/ Fails(r, "500")

(* The file is stored before its URL is made.                              *)
upload_photo(r) ==
  /\ upload(r) \/ generate_signed_url(r)
  /\ UNCHANGED <<canonicals, products, items, entries, up>>

----------------------------------------------------------------------------
(* The tables.                                                             *)
AfterCanonical(r) == IF tx[r].call.op = "item" THEN "add" ELSE "row"

FindCanonical(r) ==
  /\ tx[r].at = "select"
  /\ Goto(r, IF tx[r].name \in canonicals THEN AfterCanonical(r) ELSE "insert")
  /\ NoTrouble /\ UNCHANGED <<canonicals, products, items, files, entries, up>>

InsertCanonical(r) ==
  /\ tx[r].at = "insert"
  /\ \A s \in Reqs \ {r} : ~ (tx[s].fresh /\ tx[s].name = tx[r].name)
  /\ IF tx[r].name \in canonicals THEN End(r, "500")
     ELSE tx' = [tx EXCEPT ![r] = [@ EXCEPT !.at = AfterCanonical(r), !.fresh = TRUE]]
  /\ NoTrouble /\ UNCHANGED <<canonicals, products, items, files, entries, up>>

resolve_canonical(r) == FindCanonical(r) \/ InsertCanonical(r)

FindBarcode(r) ==
  /\ tx[r].at = "row"
  /\ tx' = [tx EXCEPT ![r] = [@ EXCEPT !.at = "upsert", !.loaded = products[tx[r].call.barcode]]]
  /\ NoTrouble /\ UNCHANGED <<canonicals, products, items, files, entries, up>>

(* Slip: a row is waited for by whoever is about to write it.              *)
holders_early(r) ==
  {s \in Reqs \ {r} : tx[s].at \in {"upsert", "commit"} /\ tx[s].call.barcode = tx[r].call.barcode}

Holders(r) == {s \in Reqs \ {r} : tx[s].wrote /\ tx[s].call.barcode = tx[r].call.barcode}

(* A row that is already as it should be is not written.                   *)
WriteBarcode(r) ==
  LET t == tx[r]
  IN  /\ t.at = "upsert"
      /\ IF t.loaded = t.name THEN Goto(r, "commit")
         ELSE /\ Holders(r) = {}
              /\ IF t.loaded = Null /\ products[t.call.barcode] # Null THEN End(r, "500")
                 ELSE tx' = [tx EXCEPT ![r] = [@ EXCEPT !.at = "commit", !.wrote = TRUE]]
      /\ NoTrouble /\ UNCHANGED <<canonicals, products, items, files, entries, up>>

_upsert_product_barcode(r) == FindBarcode(r) \/ WriteBarcode(r)

Committed(r) == canonicals \cup (IF tx[r].fresh THEN {tx[r].name} ELSE {})

scan_barcode(r) ==
  /\ tx[r].at = "commit"
  /\ canonicals' = Committed(r)
  /\ products' = IF tx[r].wrote THEN [products EXCEPT ![tx[r].call.barcode] = tx[r].name]
                 ELSE products
  /\ tx' = [tx EXCEPT ![r] = [@ EXCEPT !.at = "store", !.fresh = FALSE, !.wrote = FALSE]]
  /\ NoTrouble /\ UNCHANGED <<items, files, entries, up>>

Rules == Merged(Builtin, DbRules)

(* The item is added in the transaction of its ingredient.                 *)
create_item(r) ==
  /\ tx[r].at = "add"
  /\ canonicals' = Committed(r)
  /\ items' = items \cup {[id |-> r, name |-> tx[r].name, place |-> tx[r].call.place,
                           days |-> calculate_expiry(Rules, tx[r].name, tx[r].call.place)]}
  /\ tx' = [tx EXCEPT ![r] = [@ EXCEPT !.at = "store", !.fresh = FALSE]]
  /\ NoTrouble /\ UNCHANGED <<products, files, entries, up>>

(* A request may die at any step.                                          *)
Die(r) ==
  /\ Running(r) /\ Fails(r, "failed")
  /\ UNCHANGED <<canonicals, products, items, files, entries, up>>

Outage ==
  /\ up /\ Trouble /\ up' = FALSE
  /\ tx' = [s \in Reqs |-> IF Running(s) THEN [tx[s] EXCEPT !.calm = FALSE] ELSE tx[s]]
  /\ UNCHANGED <<canonicals, products, items, files, entries>>

Return ==
  /\ ~ up /\ up' = TRUE
  /\ NoTrouble /\ UNCHANGED <<canonicals, products, items, files, entries, tx>>

(* An answer is kept for a day.                                            *)
Expire(key) ==
  /\ key \in DOMAIN entries /\ Spends /\ excused' = excused \cup {key}
  /\ entries' = [k \in DOMAIN entries \ {key} |-> entries[k]]
  /\ UNCHANGED <<canonicals, products, items, files, up, tx>>

Step(r) == lookup_barcode(r) \/ parse_image(r) \/ upload_photo(r) \/ resolve_canonical(r)
             \/ _upsert_product_barcode(r) \/ scan_barcode(r) \/ create_item(r) \/ store_cached(r)

CatalogNext ==
  \/ \E r \in Reqs : (\E c \in Calls : Receive(r, c)) \/ Step(r) \/ Die(r)
  \/ Outage \/ Return
  \/ \E key \in DOMAIN entries : Expire(key)

----------------------------------------------------------------------------
Acked(r) == tx[r].code \in {"200", "replay"}

Stages == {"idle", "lookup", "parse", "upload", "url", "select", "insert", "row", "upsert",
           "commit", "add", "store", "done"}

Tx ==
  [at : Stages, call : Calls \cup {Null}, told : SUBSET Name, name : Name \cup {Null},
   loaded : Name \cup {Null}, fresh : BOOLEAN, wrote : BOOLEAN, code : Codes \cup {Null},
   calm : BOOLEAN]

CatalogTypeOK ==
  /\ canonicals \subseteq Name /\ products \in [Barcodes -> canonicals \cup {Null}]
  /\ items \subseteq [id : Reqs, name : Name, place : Places, days : Int] /\ files \subseteq Reqs
  /\ \A key \in DOMAIN entries : entries[key] \in Reqs
  /\ tx \in [Reqs -> Tx] /\ up \in BOOLEAN
  /\ \A r \in Reqs : /\ tx[r].fresh => tx[r].at \in {"row", "upsert", "commit", "add"}
                     /\ tx[r].wrote => tx[r].at = "commit"

(* What an answer tells of is there, whatever other requests, deaths and   *)
(* outages there are: a product scanned has its barcode and its ingredient *)
(* in the tables, and an item added is in the inventory.                   *)
AnswersAreKept ==
  \A r \in Reqs : Acked(r) =>
    CASE tx[r].call.op = "barcode" /\ tx[r].told # {} ->
           tx[r].name \in canonicals /\ products[tx[r].call.barcode] \in canonicals
      [] tx[r].call.op = "item" ->
           \E i \in items : i.name = tx[r].name /\ tx[i.id].call = tx[r].call
      [] tx[r].call.op = "upload" -> \E s \in files : tx[s].call = tx[r].call
      [] OTHER -> TRUE

(* An item added from a scan is of the ingredient the scan gave to the     *)
(* barcode, though the name goes to the app and back and is normalised     *)
(* once more each time (resolve_canonical in a scan and in a creation).    *)
ScanAndItemAgree ==
  \A i \in items :
    LET scan == tx[tx[i.id].call.from]
    IN  scan.call.op = "barcode" => i.name = scan.name

(* An item is dated by the most exact rule there is for its ingredient and *)
(* its place, one of the database before a built-in one, and by default    *)
(* only if no rule knows the ingredient (get_shelf_life_days on the merged *)
(* rules).                                                                 *)
DatedByItsName ==
  \A i \in items :
    LET Here(rules) == {rules[k].days : k \in {j \in DOMAIN rules :
                          rules[j].name = i.name /\ rules[j].place = i.place}}
        elsewhere == {Rules[k].days : k \in {j \in DOMAIN Rules : Rules[j].name = i.name}}
    IN  i.days \in (IF Here(DbRules) # {} THEN Here(DbRules)
                    ELSE IF Here(Builtin) # {} THEN Here(Builtin)
                    ELSE IF elsewhere # {} THEN elsewhere ELSE {DEFAULT_SHELF_LIFE})

(* A request beside which nothing runs and around which nothing fails      *)
(* succeeds, whatever was scanned and added before.                        *)
CalmRequestSucceeds ==
  \A r \in Reqs : tx[r].at = "done" /\ tx[r].calm =>
    Acked(r) \/ (tx[r].code = "403" /\ tx[r].call.user \notin Allowed)

(* What was answered with success is not done again: of two items of one   *)
(* call the first was never so answered, for Redis, which keeps answers    *)
(* apart from the commit, was away or the request died between the two;    *)
(* or its answer has expired; or the call was sent again while it still    *)
(* ran (the item is made before its answer is stored, in create_item).     *)
AddedOnce ==
  \A i, j \in items :
    /\ i.id < j.id /\ tx[i.id].call = tx[j.id].call /\ _scoped_key(tx[i.id].call) \notin excused
    => tx[i.id].code # "200"

(* Answers tell of what is stored, a repetition adds nothing to it, and    *)
(* only trouble or company makes an answer an error.                       *)
AnswersAreRight == AnswersAreKept /\ AddedOnce /\ CalmRequestSucceeds

(* An item has the ingredient of its scan and the date of its ingredient,  *)
(* however often its name was normalised and wherever the rules came from. *)
NamesAgree == ScanAndItemAgree /\ DatedByItsName
=============================================================================
