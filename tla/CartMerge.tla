------------------------------ MODULE CartMerge ------------------------------
(***************************************************************************)
(* The cart of a guest's draft order, and how messages change it.          *)
(*                                                                         *)
(* The language model answers a message with deltas (add, remove, set the  *)
(* quantity of an item), with a full list, or with neither.  _handle_order *)
(* drops the deltas whose ids the draft remembers, merges the others into  *)
(* the stored lines, looks every line up in the menu again, and saves what *)
(* was found and is not on stop.  A message may be handled several times:  *)
(* delivered again, or retried after an error behind the commit.           *)
(*                                                                         *)
(* One handling is one step here: its read and its write are one short     *)
(* transaction whose UPDATE is conditional on row_version, and the writers *)
(* of one order that interleave are those of OrderLifecycle.  A dish is    *)
(* named by its id in the menu, by its name, or by another spelling that   *)
(* the fuzzy search takes for the name.  Prices, fees, packaging and the   *)
(* split of a payment are left out: where they matter they refuse the      *)
(* message, which changes nothing.                                         *)
(***************************************************************************)
EXTENDS Naturals, SequencesExt

CONSTANTS
    Dishes,      \* dishes of the menu
    Messages,    \* messages of the guest
    Labels,      \* values of action_id the model may choose
    Batches,     \* the sequences of deltas the model may answer with
    Lists,       \* the full lists it, or the panel, may give
    MaxQty,      \* bound on the quantity of a line
    MaxSaves,    \* bound on the number of saves
    NoDish, NoLabel, None

VARIABLES
    lines,       \* items_json.items of the draft, empty without a draft
    ids,         \* order_meta.applied_order_action_ids
    stopped,     \* dishes on the stop list
    owed,        \* quantities by the plain meaning of what was accepted
    astray,      \* dishes a delta named otherwise than its line in the cart
    done,        \* ids this draft has ever remembered
    twice,       \* a delta with such an id was merged into it again
    last,        \* the last save's message with its deltas, if all were new and found
    saves

ghosts   == <<owed, astray, done, twice, last>>
cartVars == <<lines, ids, stopped, ghosts, saves>>

Ops   == {"add", "remove", "set_quantity"}
Words == [dish : Dishes \cup {NoDish}, form : {"id", "name", "alias"}]

Deltas == [label : Labels \cup {NoLabel}, word : Words, op : Ops, qty : 0..MaxQty]

\* A line of the cart.  Until it is looked up, one that came as an id has no
\* name and one that came as a name has no id.
Lines == [word : Words, dish : Dishes \cup {NoDish}, qty : Nat]

\* A line as a full list gives it: a name, not looked up.
ListedLines == {l \in Lines : l.word.form # "id" /\ l.dish = NoDish /\ l.qty > 0}

ASSUME BatchesAssumption == Batches \subseteq Seq(Deltas)
ASSUME ListsAssumption   == Lists \subseteq Seq(ListedLines)
ASSUME MaxAssumption     == MaxQty \in Nat /\ MaxSaves \in Nat
ASSUME NoneAssumption    == NoDish \notin Dishes /\ NoLabel \notin Labels

-----------------------------------------------------------------------------
(* merge_cart_actions *)

\* _internal_merge_key_from_food_line: the id goes before the name.
Key(line) == IF line.dish # NoDish THEN [dish |-> line.dish, form |-> "id"] ELSE line.word

\* Bug: of two lines with one key the second is dropped.
AddLineOnce(cart, line) ==
    IF \E i \in DOMAIN cart : Key(cart[i]) = Key(line) THEN cart ELSE Append(cart, line)

\* Stored lines with one key become one line.
AddLine(cart, line) ==
    LET i == SelectInSeq(cart, LAMBDA l : Key(l) = Key(line))
    IN  IF i = 0 THEN Append(cart, line)
        ELSE [cart EXCEPT ![i].qty = @ + line.qty]

Loaded(stored) == FoldLeft(AddLine, <<>>, stored)

\* _resolve_merge_key: by key, by id, by name; 0 when there is none.
Target(cart, word) == SelectInSeq(cart, LAMBDA l : Key(l) = word \/ l.word = word)

Stub(word) ==
    [word |-> word, dish |-> IF word.form = "id" THEN word.dish ELSE NoDish, qty |-> 0]

Amount(delta, qty) ==
    CASE delta.op = "add"          -> qty + delta.qty
      [] delta.op = "remove"       -> IF qty > delta.qty THEN qty - delta.qty ELSE 0
      [] delta.op = "set_quantity" -> delta.qty

\* A line at zero is deleted; a delta that would leave zero makes no line.
MergeDelta(cart, delta) ==
    LET i   == Target(cart, delta.word)
        qty == Amount(delta, IF i = 0 THEN 0 ELSE cart[i].qty)
    IN  CASE i = 0 /\ qty = 0 -> cart
          [] i = 0 /\ qty > 0 -> Append(cart, [Stub(delta.word) EXCEPT !.qty = qty])
          [] i > 0 /\ qty = 0 -> RemoveAt(cart, i)
          [] i > 0 /\ qty > 0 -> [cart EXCEPT ![i].qty = qty]

Merge(stored, deltas) == FoldLeft(MergeDelta, Loaded(stored), deltas)

-----------------------------------------------------------------------------
(* Idempotency *)

\* compute_order_action_stable_id: the model's own id, or one made of the
\* message and the delta.
Id(m, i, delta) ==
    IF delta.label # NoLabel
    THEN [label |-> delta.label, message |-> None, place |-> 0,
          word |-> None, op |-> None, qty |-> 0]
    ELSE [label |-> NoLabel, message |-> m, place |-> i,
          word |-> delta.word, op |-> delta.op, qty |-> delta.qty]

\* filter_order_actions_idempotent: the places of the deltas that are new.
Fresh(m, deltas) ==
    {i \in DOMAIN deltas :
        /\ Id(m, i, deltas[i]) \notin ids
        /\ \A j \in 1..(i - 1) : Id(m, j, deltas[j]) # Id(m, i, deltas[i])}

Accepted(m, deltas) ==
    FoldLeft(LAMBDA s, i : IF i \in Fresh(m, deltas) THEN Append(s, deltas[i]) ELSE s,
             <<>>, [i \in DOMAIN deltas |-> i])

NewIds(m, deltas) == {Id(m, i, deltas[i]) : i \in Fresh(m, deltas)}

\* What the new order_meta has of the ids of the old one: build_order_items_json
\* makes it anew, and of the old one only recommendations are carried over.
Carried == {}

\* Bug: the ids are never written.
RecordedNever(m, deltas, unknown) == Carried

\* The ids of a merge are remembered when every line was found in the menu.
Recorded(m, deltas, unknown) ==
    IF unknown THEN Carried ELSE Carried \cup NewIds(m, deltas)

-----------------------------------------------------------------------------
(* validate_order *)

\* enrich_merged_items_from_menu: a line that came as an id gets its name.
Named(line) ==
    IF line.word.form = "id" /\ line.dish # NoDish
    THEN [dish |-> line.dish, form |-> "name"] ELSE line.word

\* The search goes by name; a dish named by an id that is not in the menu, or
\* by a name nothing is close to, is not found.
DishOf(line) == Named(line).dish

Unknown(cart) == \E i \in DOMAIN cart : DishOf(cart[i]) = NoDish

\* A line that is found and not on stop keeps the name it was given and gets
\* the id of the dish that was found.
Keep(kept, line) ==
    IF DishOf(line) \in stopped \cup {NoDish} THEN kept
    ELSE Append(kept, [word |-> Named(line), dish |-> DishOf(line), qty |-> line.qty])

Validated(cart) == FoldLeft(Keep, <<>>, cart)

-----------------------------------------------------------------------------
(* The reference: what the deltas and lists mean, dish by dish. *)

Weight(line, d) == IF DishOf(line) = d THEN line.qty ELSE 0

Qty(cart, d) == FoldLeft(LAMBDA n, line : n + Weight(line, d), 0, cart)

\* The cart has a line of the dish that the word does not lead to.
Strays(cart, delta) ==
    /\ delta.op # "add"
    /\ \E i \in DOMAIN cart : DishOf(cart[i]) = delta.word.dish /\ i # Target(cart, delta.word)

Account(acc, delta) ==
    [cart   |-> MergeDelta(acc.cart, delta),
     owed   |-> IF delta.word.dish = NoDish THEN acc.owed
                ELSE [acc.owed EXCEPT ![delta.word.dish] = Amount(delta, @)],
     astray |-> IF delta.word.dish # NoDish /\ Strays(acc.cart, delta)
                THEN acc.astray \cup {delta.word.dish} ELSE acc.astray]

\* What is owed once the dishes on stop are struck out.
Settle(quantities, strayed) ==
    /\ astray' = strayed \ stopped
    /\ owed' = [d \in Dishes |-> IF d \in stopped \cup strayed THEN 0 ELSE quantities[d]]

-----------------------------------------------------------------------------

CartTypeOK ==
    /\ \A i \in DOMAIN lines : /\ lines[i] \in Lines
                               /\ lines[i].dish = lines[i].word.dish
                               /\ lines[i].dish # NoDish /\ lines[i].word.form # "id"
                               /\ lines[i].qty \in 1..MaxQty
    /\ lines = <<>> => ids = {}
    /\ ids \subseteq done
    /\ stopped \cup astray \subseteq Dishes
    /\ owed \in [Dishes -> Nat]
    /\ twice \in BOOLEAN
    /\ last \subseteq Messages \X Batches
    /\ saves \in 0..MaxSaves

CartInit ==
    /\ lines = <<>> /\ ids = {} /\ stopped = {}
    /\ owed = [d \in Dishes |-> 0] /\ astray = {}
    /\ done = {} /\ twice = FALSE /\ last = {}
    /\ saves = 0

\* finalize_order_draft and the conditional UPDATE.  An order in which nothing
\* is left is refused and not saved.
Save(cart) ==
    /\ saves < MaxSaves
    /\ Validated(cart) # <<>>
    /\ \A d \in Dishes : Qty(Validated(cart), d) <= MaxQty
    /\ lines' = Validated(cart)
    /\ saves' = saves + 1
    /\ UNCHANGED stopped

\* The answer has deltas and there is a draft.
Change(m, deltas) ==
    /\ lines # <<>>
    /\ LET accepted == Accepted(m, deltas)
           cart     == Merge(lines, accepted)
           account  == FoldLeft(Account, [cart |-> Loaded(lines), owed |-> owed, astray |-> astray],
                                accepted)
           kept     == Recorded(m, deltas, Unknown(cart))
       IN  /\ Save(cart)
           /\ ids' = kept
           /\ Settle(account.owed, account.astray)
           /\ last' = IF Fresh(m, deltas) = DOMAIN deltas /\ ~Unknown(cart)
                      THEN {<<m, deltas>>} ELSE {}
           /\ done' = done \cup kept
    /\ twice' = (twice \/ NewIds(m, deltas) \cap done # {})

\* Whatever replaces or reprices the lines without deltas forgets the ids.
Replace(cart) ==
    /\ Save(cart)
    /\ ids' = Carried
    /\ last' = {}
    /\ UNCHANGED <<done, twice>>

\* The answer has a full list: it makes the draft, or replaces its lines.
FullList(list) ==
    /\ Replace(list)
    /\ Settle([d \in Dishes |-> Qty(Validated(list), d)], {})

\* The answer has neither: what is in the draft is looked up again.
Reprice ==
    /\ lines # <<>>
    /\ Replace(lines)
    /\ Settle(owed, astray)

\* rebuild_order_draft: the panel's list is refused as a whole when something
\* in it is unknown or on stop.
Rebuild(list) ==
    /\ lines # <<>>
    /\ Len(Validated(list)) = Len(list)
    /\ FullList(list)

\* The order is confirmed or cancelled; the next one begins without a cart.
Close ==
    /\ lines # <<>>
    /\ lines' = <<>> /\ ids' = {}
    /\ owed' = [d \in Dishes |-> 0] /\ astray' = {}
    /\ done' = {} /\ last' = {}
    /\ UNCHANGED <<stopped, twice, saves>>

\* The kitchen puts a dish on the stop list, or takes it off.
StopList(d) ==
    /\ stopped' = IF d \in stopped THEN stopped \ {d} ELSE stopped \cup {d}
    /\ UNCHANGED <<lines, ids, ghosts, saves>>

CartNext ==
    \/ \E m \in Messages, b \in Batches : Change(m, b)
    \/ \E l \in Lists : FullList(l) \/ Rebuild(l)
    \/ Reprice
    \/ Close
    \/ \E d \in Dishes : StopList(d)

CartSpec == CartInit /\ [][CartNext]_cartVars

-----------------------------------------------------------------------------
\* The cart holds what the guest asked for: of every dish the quantity that the
\* accepted deltas and lists come to, whatever words they named it by, however
\* lines were split, joined, looked up again and struck out on the way.  Not
\* held for a dish that was removed or set under another spelling than the one
\* its line has: such a delta misses the line.
QuantitiesFollowDeltas ==
    \A d \in Dishes \ astray : Qty(lines, d) = owed[d]

\* A message handled again at once, with the same answer, leaves the cart as it
\* was, except for dishes that have come on the stop list, if all its deltas
\* were new and found the first time: their ids are remembered until the next
\* save of any kind.
RetryHarmless ==
    [][\A m \in Messages, b \in Batches :
          <<m, b>> \in last /\ Change(m, b)
          => \A d \in Dishes : Qty(lines', d) = IF d \in stopped THEN 0 ELSE Qty(lines, d)]_cartVars

\* "A repeat of the same id on the same draft is ignored."
RepeatedIdIgnored == ~twice
=============================================================================
