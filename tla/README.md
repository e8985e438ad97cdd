# RestoMind in TLA+

RestoMind is a FastAPI application that takes restaurant orders by chat. A guest
writes on WhatsApp or Telegram; a language model turns the message into a draft
order; the guest confirms, staff watch and edit in an admin panel, the order is
sent to the kitchen system (iiko), and payment providers report by webhook. The
state is in Postgres (READ COMMITTED, SQLAlchemy sessions, no `SELECT FOR
UPDATE` on orders) and in Redis (locks, queues, caches). Web processes and ARQ
workers run the same code side by side.

This directory holds a model of the parts in which several of these actors meet
on the same piece of state.

| file | what it is |
| --- | --- |
| `OrderLifecycle.tla` | one order and every handler that changes its status or cart |
| `KitchenTicket.tla` | abstract: what a send to the kitchen promises; OrderLifecycle implements it |
| `ChatSerializer.tla` | one guest's chat: message ids, queue, lease lock, retries |
| `MessageCustody.tla` | abstract: where the messages of a chat are; ChatSerializer implements it |
| `PaymentLedger.tla` | the money of one order: prepayment, transactions, audit, the message to the guest |
| `DialogSession.tla` | one guest's conversation: the state in Postgres, its cache in Redis, the operator |
| `ChannelMessages.tla` | one message between the application and the WhatsApp gateway |
| `AgentActions.tla` | proposals of the agent: how they are sent out, previewed, confirmed |
| `Bookings.tla` | the bookings of one slot, alone or with an order |
| `DomainEvents.tla` | durable events and what their consumers make of them |
| `ShiftFocus.tla` | skips, completions and leases of the operators on the shift screen |
| `CartMerge.tla` | the lines of a draft under the model's deltas, and the ids of applied deltas |
| `*Proofs.tla` | the theorems about the module of that name, checked by TLAPS: all modules but the abstract ones have one; `OrderProofs` is that of OrderLifecycle and of CartMerge, `ChatProofs` that of ChatSerializer and of ChannelMessages |
| `MC*.tla`, `*.cfg` | instances for TLC, one `.cfg` per run |
| `PROJECT.json` | runs, mutants, map from definitions to source lines, findings, hazards |

## Inventory

Paths are relative to `src/app/`.

**Order lifecycle** - `api/admin/orders.py`, `services/intent_router.py`,
`services/payment_autoprint_iiko.py`, `services/order_logic.py`,
`services/order_confirm_gate.py`, and the order handlers of `api/webhooks.py`.
State: a row of `orders` (status, `row_version`, `items_json`, total).
Operations: create, edit, choose payment, confirm, return to draft, rebuild,
split the payment, send to iiko, kanban moves, three ways to cancel, delete.
Every one reads the row, awaits something, and writes. Correct if: the kitchen
gets what the order shows, once; no status is a dead end; a cancelled order
stays cancelled; every change is in the event log.

**Chat pipeline** - `api/webhooks.py`, `services/chat_serializer.py`,
`services/whatsapp_idempotency.py`. State: `whatsapp_inbound_dedupe`, the list
`chat:queue`, the lease `chat:lock`. Correct if: a message is answered once, in
turn, and is not lost without a trace.

**Payments** - `services/payment_*.py`, `api/payment_webhook.py`, part of
`api/admin/orders.py`. State: `orders.prepayment_status`,
`payment_transactions`, `payment_events`, a system message in the chat log.
Correct if: money is booked once, a booked payment stays booked, and the guest
is told.

**Dialog session** - `services/dialog_mgr.py`, `services/conversation_state.py`,
`process_message` of `api/webhooks.py`, the operator's buttons: the FSM of a
conversation in `users.current_state` with its version, cached in Redis, which
is read first. Hard: the cache is written after the commit; the language model
takes seconds, and what it decided is written afterwards. Correct if the bot
keeps out of an operator's conversation and an answer is written only into the
session it was made for.

**Cart merge** - `services/order_logic.py`, `services/intent_router.py`: the
model answers with deltas, which are merged into the draft's lines; the ids of
applied deltas are remembered. Correct if the lines hold what was asked for and
a message handled twice counts once.

**Channels** - `services/messaging_gateway.py`, `services/conversation_service.py`
and the gateway process: rows of `channel_messages` as inbox and outbox, worked
on at once and again by a cron. Correct if every message ends, and is repeated
only for a reason.

**Bookings** - `services/booking_halls.py`, `api/admin/bookings.py`,
`intent_router.py`: a booking follows its order's confirmation and
cancellation; the VIP hall is for one party at a time, by a check before the
insert.

**Domain events** - `services/system_events.py`,
`services/event_consumer_runner.py` and consumers: an event is written in the
transaction of the change, under an idempotency key; consumers run in a task
started after the commit. Hard: that task is lost with its process, and
healing counts in Redis what the database may roll back.

**Agent actions** - `services/agent_actions.py`, `services/insight_delivery.py`,
the digests: proposed, previewed, confirmed, applied, from the panel and from
Telegram. Hard: the message goes out before the transaction commits.

**Queue, worker, crons** - `services/task_queue.py`, `worker.py`, `main.py`,
`services/redis_locks.py`: ARQ jobs or in-process background tasks; loops kept
apart by Redis locks.

**Draft recovery and night preorders** - reminders that put a guest back into
the confirming state, with a once-a-day key set before the message is sent.

**Shift control and healing** - `services/shift_state_engine.py`: operators skip
and complete items of the money queue, each with a lease on one item, all in
Redis. Hard: keys and the sets that list them are written, found stale and
removed in separate commands. Correct if an item is closed once, nobody is shown
what was put off, and two operators get different items.

**The rest** - the AI engine, menu and stop list sync, POS adapters, voice, marketing and review requests, owner reports
and analytics, users and tenants, billing, the browser code. Mostly I/O,
reports and single statements; `PROJECT.json` lists each with its status.

How they meet: the chat pipeline runs `process_message`, which changes the
order and the dialog session; payments and the order share one row, and a paid
webhook starts the automatic send; the panel and the guest edit the same draft;
events connect everything to the consumers.

## Modelling conventions

A handler is cut where other actors can get in: at every commit, and at every
await between the read it decides on and the write it makes. `Read` keeps the
loaded row in `seen` (or `was`), as the session does. A later ORM write changes
only the columns that differ from the loaded ones; `items_json` is one column
and is written whole. A bulk `UPDATE ... WHERE` is one atomic step on the
committed row. Contents of carts, texts, amounts and identifiers are model
values. A name ending in what a bug would do (`ClaimableAlways`,
`PutBackForgets`) is a mutant of the definition next to it; no action uses it. Every module has a
type invariant. Those of CartMerge (`CartTypeOK`), ChannelMessages (`MessageTypeOK`),
ChatSerializer, DialogSession and ShiftFocus are listed in no run: they are
proved instead.

## OrderLifecycle

`order` is the committed row, `tickets` the sends iiko has accepted, `logged`
the idempotency keys of the order's events. A request has a `kind` (which
handler), a `step`, its snapshot `seen`, its `input` and iiko's `reply`.

| action | code |
| --- | --- |
| `Read`, `Refuse` | the first half of each handler; gates, 400/409, rollback |
| `SaveGuestEdit` | `persist_draft_order_optimistic_update` |
| `SavePaymentChoice` | `handle_order_payment_choice` |
| `SavePaymentSplit`, `SaveRebuild` | `patch_order_payment_split`, `rebuild_order_draft` |
| `ConfirmOrder` | `confirm_order`, from the guest, the panel and the automatic send |
| `RevertToDraft`, `Fulfil` | `patch_order_status` |
| `Cancel`, `Delete` | `cancel_order`, `cancel_all_draft_orders_for_phone`, `bulk_cancel_orders`, `delete_single_order` |
| `Claim`, `CallIiko`, `FinishRead`, `FinishWrite`, `FinishGone` | the send: conditional UPDATE and commit, the call, the final write in a session of its own |
| `Reload` | the automatic send refreshes the row it confirmed |
| `Crash` | the process dies while it holds the claim |

`collided` is a history variable: some handler wrote the status over a status
it had not seen. Two properties say what holds up to such a write, because the
code has no protection against it.

`order_lifecycle` (3 requests, 2 carts, 1 method; 620,831 states) shows:

- `SendingHasOwner`: *sending to iiko* always has a send that owes an outcome,
  or one that died. `SendingResolves` adds that the outcome comes.
- `SentHasTicket`: the kitchen statuses are never shown without an accepted ticket.
- `ConfirmedHasEvent`: all three ways to confirm record the event.
- `DuplicateNeedsCause`: a second ticket needs a lost answer, a dead sender or a
  colliding write. The first two are inherent to an API without idempotency key.
- `CancelUndoneOnlyBySend`: only a send in flight, or a colliding write, revives
  a cancelled order.

Three requests are what these need: a duplicate is two sends with one handler
between them; each of the properties is proved for any number. Two carts tell
an edit from no edit. `row_version` grows at most once per write, so it needs
no bound.

Fairness: `CallIiko` and the final write happen unless the process dies. The
client to iiko has a timeout, the handler awaits nothing else. Handlers are not
required to start, nor to write once they have read.


`KitchenTicket` says what this comes to for the kitchen, without rows and
sessions: a claim is made only on an open order, each send asks once, *sent*
needs a ticket, nothing but a claim shows *sending*. `Kitchen == INSTANCE
KitchenTicket WITH ...` maps the row to what it shows and a request's step to
its progress; `SendsAsPromised` is that specification as a property of
`order_lifecycle`, and `KitchenIsServed` is its proof. A mapped step that
changes only the cart, the events or a snapshot is a stutter.

## ChatSerializer

A job is one run of `process_inbound_message` for one delivery. `row` and `old`
are the table of message ids, `queue` and `lock` the Redis keys; a job has a
`pc` and the message in its `hand`. Each Redis call is an action (`Check`,
`Measure`, `Trim`, `Push`, `Acquire`, `Drain`, `Renew`, `Release`), each has a
failing twin that does what the `except` does - including the case where Redis
executed a command whose answer was lost. `Lapse` is the lease running out
(15 s, and a message takes a language model call), `Forget` the queue's TTL,
`Age` the 15 minutes after which a message id may be claimed again, `Crash`
the death of a worker. `Faults` says which of these a run allows. `Age` assumes
that a job does not carry a message for 15 minutes: ARQ ends a job after five.

`chat_serializer` (3 jobs, 2 messages, queue of 1, all faults; 576,672 states
up to symmetry) shows:

- `HolderHasLock`: whoever is in the drain loop and has not overstayed its lease
  has the lock; in particular the `finally` of a late job frees nobody else's.
- `NothingLostSilently`: a claimed message is in the queue, in a job's hand, or
  in `lost`, which grows only at a crash, an overflow, an expiry or a failing
  Redis or Postgres.
- `OneCopy`: there is one copy of a message, except of those whose claim itself
  failed and was ignored (`StartUnchecked`).

A queue of 1 makes the overflow happen with two messages; the limits 20 of the
code play no other role. Three jobs are the smallest number with an owner, a
successor and a newcomer, and two attempts (`MaxRetries`) the smallest number
with a retry. A cycle ends after one message here (`MaxDrain`, 20 in the code): the
limit is reached, and the next message waits for the next job, as it does at 20;
with 2 the run does not end within its five minutes. The theorems hold for every
limit.

`MessageCustody` says what all this comes to for the messages, without leases,
retries and commands to Redis: a message that is let in waits, or one job has it,
or it is settled, or its loss has a name; and jobs take messages up only inside a
section which they enter only while everybody in it has overstayed. `Custody ==
INSTANCE MessageCustody WITH ...` maps the queue and the jobs' hands to the places
of messages (`PlaceOf`, `HandOf`) and the drain loop to the section;
`KeepsCustody` is that specification as a property of the run. A message whose
claim failed and was ignored is *unchecked*: nothing is promised of it, as
nothing is known of it.

The run `drained` refutes a comment: with no fault at all a message can be left
in the queue when all jobs have ended - pushed between the owner's last LPOP and
its release.

## PaymentLedger

`prepay` and `version` are the order's columns, `txs` the transactions by id,
`events` the audit table with its unique key, `notified` the rows of the chat log
that say the guest was written to, `told` and `failed` whether a message has
reached the channel and whether one has not. A request runs a webhook (`Record`, `PickTx`, `SaveWebhook`), an admin's
change (`AdminSave`), a confirmation refused for its split (`SplitReset`), an
edit of the cart (`EditUpdate`, `EditCommit`), or one cycle of the expiry loop
(`ExpiryRead`, `ExpirySave`, `RemindRead`, `RemindSave`, `RemindFails`,
`ExpiryEnds`). `Dispatch`, `NotifyRead`, `NotifySave` and `NotifySend` are what
follows a commit: the row of the chat log is committed first (`NotifySave`), which
ends all later tries, and then the message is sent, or is not (`NotifySend`).

Row locks matter here and are modelled: a transaction that has flushed the row
of `orders` makes other writers of that row wait (`OrderFree`), an uncommitted
event makes an equal one wait. A paid webhook flushes the order before it looks
for the pending transaction (autoflush); this alone keeps two payments from
taking the same transaction, and the mutant `MayPickAlways` shows it.

`payment_ledger` (3 requests, 2 payments, up to 4 transactions; 334,650 states
up to symmetry) shows `BookedOnce`, `BookingStays` (a booked
payment is overwritten only by a failed webhook or an expiry that had already
read the transaction), `PaidTakenBackByHand` (a reminder or a webhook never
takes *paid* back) and `PaidIsTold` (no order of duplicates, resets and second
payments leaves the guest untold; what does is a process that dies owing the
message and a send that fails after its row was committed). Every property needs
at most two overlapping handlers and a third before or after them. Initially
the order has a link and one transaction, or is due without a link, or is not
due. `MaxTx` bounds the ids; with three requests each making at most one or two
transactions four are enough.

Abstractions: one provider; amounts left out; the id a provider gives at
initiation is overwritten by the webhook and left out; the search for an
earlier message looks at the last 48 system messages, here at all; the staff's
resend of a failed message, which ChannelMessages has, is left out; the Redis
lock of 900 s keeps cycles of the expiry loop apart; the order is not cancelled
meanwhile.

## DialogSession

`db` is the committed row of `users` (state, `session_version`, pending order,
pause, snooze), `cache` the two keys in Redis, `orders` the guest's orders,
`locked` the request whose UPDATE of the row is not committed yet, `job` what
each handler is doing. `Init` starts at any point of a conversation, with Redis
right, one step behind (a handler killed between its commit and its write to
Redis) or empty.

| actions | code |
| --- | --- |
| `ReadState`, `Refill`, `Preflight`, `Heed`, `Resume`, `Resumed`, `Synced` | the head of `process_message`: cache first, then the row, the operator's states, the end of a snooze |
| `PaymentAnswer`, `ConfirmationAnswer`, `ConfirmPending`, `BookingAnswer`, `Clear`, `ClearCommit` | a message that answers a question |
| `Talk`, `Answer`, `Route`, `StoreState`, `StorePending` | the model's call, `apply_conversation_state_in_txn`, `set_user_state` |
| `Operate` | takeover, release, pause, snooze in the panel |
| `CloseOrder`, `Unpend`, `CancelCommit` | an order closed from the panel or by the automatic send |
| `FindDraft`, `RestorePending`, `RestoreState`, `Reminded` | the reminder of an unfinished draft |
| `Expire`, `Crash`, `SnoozeEnds` | Redis keys that run out, dying handlers, time |

`Heed` is the note in Redis of an operator whom only the row knew. The tick of
the reminders serves many guests in one transaction, so that the row of a guest
whose text was not sent is committed or not, as another's was sent or not
(`Reminded`).

`dialog_session` (2 handlers of any kind, 2 orders) shows `BotYieldsToOperator`
- Redis, which is read first, may say anything: a message that comes when the
row says that an operator has the guest is not answered by the bot - and
`RouteFindsItsSession`: the version check keeps the model's decision out of a
session that has moved. Two handlers are enough for both: one message, and
whoever gets in between. Two orders tell the pending order from another.

## ChannelMessages

One row of `channel_messages`, with the chat message it belongs to (`log`), the
processes that work on it (`worker`) and the POSTs to the gateway (`gateway`),
which outlive the caller that timed out. `Make` inserts the row, as a background
task, the bot or an operator does; `List` is the cron's query, `OnDemand` a
dispatch on demand; `Load`, `Take`, `Post`, `Hear`, `Apply`, `MarkFailed`
are `dispatch_outbound_message`, `Pipeline`, `Finish`, `PipelineRaises` the inbound
half, `Resend`, `EnqueueAgain`, `Refresh`, `Finalize` the operator's; `Refuse`, `Accept`,
`Report`, `ReportFailure` are the gateway. *sent* stands for sent, delivered
and read.

`channel_messages` (2 processes, 2 attempts instead of 5, 1 death or dispatch
on demand) shows `SentMeansAccepted` - what staff see as sent is out, whoever
says so and however late - `DuplicateNeedsCause` - the retries by themselves duplicate
nothing: a second copy needs two processes that both found the row due, a
success that was not heard of, a death, a pipeline slower than five minutes, or
the operator - and `Settles`: a message ends as sent, processed or failed.

Fairness: each process goes on with what it is doing and the gateway with its
calls (both have timeouts), the cron asks again (it runs every minute), and
time passes (`BackoffEnds`, `GoesStale`). At most `MaxMishaps` processes die;
the cron of another takes over.

The model is of one row. An operator's resend makes its key from the stripped
text and from the phone: where the first key was made of a text with blanks at
its ends, or of an address that is no phone number, it gets another row and a
second message. That is outside `DuplicateNeedsCause`.

## AgentActions

One insight and one period of each digest. `row` holds the proposals by the
order of their insertion, `sender` the open transactions of the hourly
delivery, the two digests of the cron and the one of the panel (`Propose`,
`Send`, `Finish`, `SenderFails`), `request` the staff's requests (`Begin`,
`Write`, `Commit`, `Abort`) in the panel or by the link. A request reads the
proposal without a lock and writes it by its primary key: the second writer
waits for the first and then writes over it, which `lost` records.

`agent_actions` (delivery, weekly digest, panel; 2 requests, 2 proposals, 1
mishap) shows `DecidedOnce` (a command is carried out at most once and never
with a rejection, up to a write over an unseen status: the status checks are
all there is), `DuplicateNeedsOverlap` (a key is proposed twice only by
transactions that overlapped, or after such a write) and `ResentNeedsMishap`.
Two requests make every race of two decisions, two proposals every duplicate.
The definition `PreviewedFirst` (no command without a preview) holds as well, and
is proved.

## Bookings

One slot. `booking` are the rows, `order` each guest's order and the booking in
its `items_json` (an order that was deleted is gone for good: another order of
the guest is another row), `asked` the booking a guest is asked about by the row of
`users`, `waiting` the same by Redis, which his messages go by, `work` the open
transaction of each handler: its booking as loaded, and the columns it changed.
A guest's messages come one at a time; staff and the automatic send run beside
them.

| actions | code |
| --- | --- |
| `Ask`, `Insert`, `AskGuest`, `PlaceOrder` | `_handle_booking`, a preorder in `_handle_order`; the question in the row, and in Redis after the commit |
| `RowMoves`, `CacheMoves`, `Recover` | what moves the dialog without a look at the booking: takeover, release, pause, snooze, auto-resume, the reminder of a draft, `clear_pending_order`, keys that end; Redis filled from the row |
| `Answer`, `TakeOrder`, `ReadBooking`, `Check`, `Confirm` | a yes: `confirm_booking`, `confirm_order` |
| `CancelBooking`, `Hold`, `CancelOrder` | a no, and `cancel_order`, which locks the order's row before it reads the booking |
| `Patch`, `SavePatch`, `OpenOrder`, `SaveOrder` | the panel: `patch_booking`, and an order reverted, cancelled or deleted, which leaves its booking alone |
| `Refuse`, `Abort` | an occupied slot; an error, such as an update of a deleted row, or one side of a deadlock |

The writers that move a dialog are those of DialogSession; here they are two
steps that may happen at any time, one for the row and one for Redis, because
what matters for a booking is only that they do not look at it. `CacheMoves`
stands for the end of the keys too. An answer leaves the row at
*confirming_booking* (`clear_pending_booking` is Redis only), so that the guest's
next booking waits until the row moves (`Ask`): the code drops such a message as
stale. The two commands of `AskGuest` (state, then id) are one step, since no
message of the guest comes in between.

A decided booking that the row still names, and that Redis would be filled with
again, is left out of `Recover` and `Forget`: its answer is refused and changes
nothing.

`bookings` (2 guests, one of whom orders, one handler of the staff, 2 bookings, one
thing from outside the chats: a change in the panel, a confirmation by the staff or
a payment, or a move of a dialog; 820,277 states) shows `SharedNeedsCause` (guests
alone never share the VIP table, although the check and the insert are two steps),
`OrderHasBooking`, `DraftHasDecider` (a draft, which keeps the table from everybody,
can be decided by its guest or goes with a draft order) and `ConfirmedStays`. Each
names, through `marks`, the ways in which it fails; those are listed under *What the
code does not keep*. Sharing needs two bookings, and each cause takes two guests, or
one and `MaxOutside = 1`; two things from outside at once are too many states for a
run and are covered by the proofs.

## DomainEvents

Business transactions (`tx`) look an idempotency key up, insert, and commit
(`LookUp`, `Insert`, `Finish`); after the commit a task hands the event to the
consumers (`Record`, `Count`, `Mute`, `Report`, `End`). `Record` stands for the
statistics and the audit log, the others for the real-time healing: a counter
per hour in Redis, a mute of 30 minutes in Redis, an insight in the database.
A failing statement aborts the task's transaction, while its Redis commands
stay. `Crash` loses the task.

`domain_events` (4 transactions, 3 keys, threshold 2, 2 mishaps; 45,632 states)
shows `CountsFollowStore` (an event is counted once, and only if the change was
committed), `SpikeReported` (unless a task that had seen the spike died: its
mute then silences the others) and `FailureNeedsOverlap` (the unique key hits
only transactions that overlapped). Three keys are a spike with one event to
spare, the fourth transaction repeats a key.

## CartMerge

Pure operators first: `Loaded`, `Target`, `MergeDelta` and `Merge` are
`merge_cart_actions`, with the key of a line (`Key`: the id before the name) and
the word a delta names a dish by (its id, its name, or a spelling the fuzzy
search takes for it); `Id`, `Fresh`, `Accepted`, `Recorded` are the ids of
applied deltas; `Keep` and `Validated` are `validate_order` with the stop list. Then the
saves that use them: `Change` (deltas), `FullList`, `Reprice`, `Rebuild` (the
panel), `Close`, `StopList`. One handling is one step; writers that interleave
are OrderLifecycle's.

The reference is `Account` and `Settle`: per dish, the plain arithmetic of the
deltas, without lines, keys and names. `cart_merge` (2 dishes, 16 answers with
deltas, 4 lists, quantities up to 3, 4 saves, 2 messages up to symmetry) shows
that lines and reference agree (`QuantitiesFollowDeltas`) and that handling a
message again at once changes nothing (`RetryHarmless`). Dish `d1` is named in
all three ways and `d2` in one, because the ways concern one dish at a time;
four saves are a list, a delta that splits it, one that joins it, and a retry.
Both properties have a condition that the code makes necessary: a dish removed
or set under another spelling than its line's is not followed (the delta misses
the line), and a retry is harmless only if all deltas were new and found.

The run `repeated_ids` refutes `src/app/schemas/ai_schemas.py:94`: ids are
remembered until the next save of any kind, not as long as the draft lives.

## ShiftFocus

All of it is in Redis, one command a step. `mark` are the keys of items put off
or closed, `index` the sets that list them, `lease` the item each operator
works on, `request` what each request of a browser is doing.

| actions | code |
| --- | --- |
| `Open` | `/shift/state`, `/shift/action` |
| `Register`, `Duplicate`, `Clear`, `Tell` | `apply_shift_action`: key, index, lease, event |
| `List`, `Sweep`, `Wipe` | `reset_shift_skip_exclusions` |
| `Load`, `Check`, `Drop`, `Scan`, `LoadFails` | `_load_excluded` with the removal of entries whose key is gone |
| `Focus`, `Own`, `OwnFails`, `Rescan`, `Pick` | `_resolve_focus`: own lease, leases of others, a new lease |
| `Lapse`, `LeaseEnds`, `Die` | keys and leases that end, DELETE `/shift/heartbeat`, faults |

`shift_focus` (2 operators, 3 requests of which 2 at a time, 2 items, skips and
completions, 1 key that ends, 1 fault; 1,296,548 states up to symmetry) shows
`CompletedOnce` (an item is told of once for each time it was closed: SET NX is
the only claim), `KeysAreIndexed` (a live key is missing from its index only
after a removal, a reset or a death caught its registration half way) and
`SharedNeedsOverlap` (two operators have one item only if each looked before the
other wrote). Three requests are two that collide and one that has made the
situation: a skip whose key ended, or a lease held. `next` works as `skip` does
and is left out of the instance. Three operators add no race: a lease is
written by one and overlooked by one.

## What the code does not keep

Two runs show violations (`drained`, `repeated_ids`). The following definitions
also state what a comment or a document says, and TLC refutes them when they
are added to the configuration named; they are kept in the modules, without
runs of their own.

| definition | configuration | what happens |
| --- | --- | --- |
| `OrderLifecycle!DraftEditsBuildOnLatest` | `order_lifecycle` | the payment choice saves a draft computed from an older one (`docs/CONVENTIONS.md`, rule 6) |
| `OrderLifecycle!RebuildOnlyBeforeSend` | `order_lifecycle` | the panel replaces the cart while a send is under way |
| `OrderLifecycle!CancelledHasEvent` | `order_lifecycle` | `cancel_all_draft_orders_for_phone` records no event (rule 10) |
| `ChatSerializer!JobsEnd` | `chat_serializer`, 2 jobs, no symmetry | a job trims the queue for ever when Redis answers LLEN and refuses LPOP (`chat_serializer.py:242`) |
| `ChatSerializer!SingleFlight` | `chat_serializer` | the lease is not renewed during `process_one`: a slow message and the next one run at once |
| `PaymentLedger!ExpiryOnlyPending` | `payment_ledger` | the expiry loop selects and then updates by id: a payment booked in between is marked expired |
| `PaymentLedger!NotifiedOnce` | `payment_ledger` | two jobs both find no earlier message and both send |
| `DialogSession!EveryMessageAnswered` | `dialog_session` | `process_message` raises the version itself (`api/webhooks.py:2015`, `:2067`) and then drops the model's answer as stale (`:2589`), against the comment at `:2014` |
| `ChannelMessages!OnceEach` | `channel_messages` with `MaxMishaps = 0`, `CallFaults = {}` | background task and cron both set the row to processing and both go on (`docs/MESSAGING_GATEWAY_MVP.md`:485, :488) |
| `AgentActions!LinkLeadsToProposal` | `agent_actions` with sender `"daily"` | `daily_os_digest` closes its session without a commit: the links of its message lead to nothing (`services/daily_os_digest.py:164`) |

Other things met while modelling, visible in the models as the exceptions that
the properties name:

- Bookings: the VIP table goes to two guests when the staff, or the automatic
  send, confirm an order its guest is cancelling (*revived*). An order confirmed
  while a preorder is being attached stays confirmed with a draft booking
  (*unseen*). A draft whose order was refused, cancelled or deleted stays and
  blocks the VIP table (*left*). So does the draft of a guest whose dialog was
  moved before he answered, by an operator, a snooze, the clock or the closing of
  an order of his: his yes or no goes elsewhere, and nobody is told (*moved*). Two racing drafts refuse each other until
  one is cancelled. Cancelling, reverting or deleting an order from the panel
  does not touch its booking.
- Payments: an edit of the cart writes the prepayment status anew from the total,
  over a payment booked meanwhile (`services/intent_router.py:845`), which
  `PaidTakenBackByHand` names as an exception. A payment message whose send fails is not tried again by any later
  job (`services/payment_notify.py:65`); the staff may resend it where its row says
  *failed*, and cannot where a death left it at *sending*.
- Channels: `resend_failed_chat_message` for a Baileys message breaks the unique
  idempotency key and sends nothing (`api/admin/chats.py:729`). An inbound
  message whose retries are used up becomes *processed*, where
  `docs/MESSAGING_GATEWAY_MVP.md` says *failed*.
- Agent actions: an insight is sent again after a death between the message and
  the commit, against `docs/INTELLIGENCE_OS_PLAN.md:363`. Deliveries and digests
  use different keys, so that one insight may be proposed under each.
- Shift: an item put off while its old entry is removed, or during a reset, is
  in no index and comes back as soon as another item is put off. A completion
  that dies between SET NX and the commit leaves its item closed for an hour with
  no event; the retry is refused as a duplicate.
- Events: a task that dies after it took the mute keeps its spike from being
  reported for 30 minutes. Nothing takes up the events a dead process owed its
  consumers.
- Cart: a retry of a batch of which only a part was new forgets the ids of the
  other part. The format of `action_id` in `services/prompts.py:147-149` has
  no message in it, so that a second, intended, addition right after the first
  is dropped as a repetition.

## Proofs

`OrderProofs.tla` proves seven of the eight properties of
`order_lifecycle` for any number of requests, carts and methods, from
`ConstantsAssumption` alone. The argument has three layers, each an inductive
invariant that TLC confirmed first:

1. `TypeInv`: `TypeOK`, plus what TypeOK cannot say and later steps need: the
   kind of a request fits its step (a claim is held by a sender only) and its
   input fits its kind (a cart for an edit, a kitchen status for a kanban move).
2. `PromiseInv` = `TicketInv` /\ `EventInv`: whatever a request has loaded keeps
   the promises too. `SentHasTicket` is not inductive, because a kanban
   move writes a kitchen status on the strength of a row it read earlier; that
   row must have had its ticket, and a sender told of success has one.
3. `ClaimInv`: tickets belong to senders, and as long as nothing unclean has
   happened (no collision, no unreported success) the claim is exclusive:
   at most one request is between claim and final write, and then the row
   still says so. `DuplicateNeedsCause` follows.

`SendingHasOwner` is inductive over `TypeInv`; `CancelUndoneOnlyBySend` is an
action property proved from the same invariant, one step per action.

`KitchenIsServed` proves the refinement: `CartIsUnseen`, `ChangeIsChange` and `SendIsSend` show for every action, under
`TypeInv` and `PromiseInv`, that the mapped step is `Claim`, `Ask`,
`Settle`, `Abandon` or `Change` of KitchenTicket, or leaves its variables alone.
`PromiseInv` is what is needed for *sent* (a status written from an earlier row
has its ticket), `TypeInv` for the claim.

`DomainEventsProofs.tla` proves all four properties of `domain_events`, for any
number of transactions and keys, any threshold and any number of mishaps.
`TypeOK` says more than types: which fields go with which step (`KeysFit`,
`TasksFit`). `FailureOverlaps` needs `OverlapInv`: whoever has found no event of
a key, while another has inserted one, is on record as having overlapped
(`OverlapSeen`, `AbsentSeen`). `CountsAreTrue` needs `CountInv`: a key is
inserted by one transaction (`OneInserts`), an event has one task at most
(`OneTask`), and it is counted by the task or not at all (`CountedOnce`).
`SpikesAreReported` needs `SpikeInv`: a counter over the threshold has been
reported, is muted by a task that is about to report, or has lost that task.

`AgentActionsProofs.tla` proves all four properties of `agent_actions` and
`PreviewedFirst`, for any set of senders, requests and proposals and any number
of mishaps, with three lemmas on what a step does to the rows (`SettledRow`,
`CommittedRow`, `ProposedRow`):

1. `DecisionInv`: one request at a time has written a row and not committed
   (`OneWriter`); whoever decides has seen the proposal open (`SeenOpen`), and
   what it writes fits what it has seen unless the row moved and `lost` says so
   (`WritesSeen`); a status tells how often the command was carried out
   (`StatusTells`). `DecisionsStand` follows.
2. `DuplicateInv`: a pending row belongs to an open sender (`PendingHeld`), and
   two rows of one key, the pending ones included, have a cause on record
   (`Twins`). `DuplicatesOverlap` follows.
3. `PreviewInv`: a row carried out, or a request about to carry it out, has a
   preview. `ToldInv`: what a sender in flight will add to what the owner was
   told has its cause already.

`ChatProofs.tla` proves the properties of `chat_serializer`, for any number of jobs and messages and any limits, and that two jobs share the
drain loop only after a lease has run out (`OverlapNeedsLapse`). `HolderHasLock`
is inductive over `TypeInv`, which adds to TypeOK that a job has a message in its
hand wherever its program uses one and has not reached its limits wherever it
counts on (`JobFits`). `NothingLostSilently` is inductive over it too: a step either
leaves a message where it is, or moves it between queue and hand, or drops it for
a reason that goes into `lost` (`Accounted`). `OneCopy` is not:
a redelivery claims the row again once it is out of *processing* or old, so that
`CopyInv` adds that a message which is queued or carried is *processing* and not
old (`Copies`).

`CustodyKept` proves that ChatSerializer implements MessageCustody. For every
action it says which abstract step it is: `PlacesStay`, `HandsStay` and
`SectionsStay` carry what does not move, and each lemma (`CustodyStart`,
`CustodyEnqueue`, `CustodyLoop`, `CustodyProcess`, `CustodyTime`) moves one
message. It needs the invariants above: without `CopyInv` a message that is taken
up could still be queued, and the step would have no abstract counterpart;
without `NothingLostSilently` a message could be *vanished*, which the abstract
specification has no place for; without `HolderHasLock` a job could enter while
another is inside that has not overstayed.

`ChatProofs.tla` also proves the invariants of `channel_messages`, for any number
of processes, any limit of attempts and any faults. `SentIsAccepted` needs `OutInv`: whatever says that the message is
out - the row, the chat, the gateway's call, the process that heard of it, the
external id - says so after it is. `DuplicateHasCause` needs `UnexcusedInv`:
as long as nothing has happened that would excuse a duplicate, one process has
the row in hand and a row that is *processing* is in somebody's hand
(`OneHolder`); whoever is about to take the row has seen it due, and the call of
a process is where the process takes it to be (`CallsFit`); a message that is out
does not wait, and nobody is about to send it (`NotOutYet`).

`PaymentLedgerProofs.tla` proves all five properties of `payment_ledger`, for any
number of requests, payments and transactions. `BookInv`: the audit table has an
event for every booking (`PaidRecorded`), whoever has inserted an event without
committing it is alone with its key (`RecordersApart`), and a webhook picks one
transaction (`OnePick`). `BookingStays` needs `RowInv`: the order's row has one
holder, what a paid webhook picked under that lock is not booked by another, and
an id taken from the sequence has one owner until its row is committed (`Slots`).
`PaidIsTold` needs that a row of the chat log whose message was neither sent nor
lost nor failed has a job that is about to send it (`RowHasSender`); `PaidTakenBackByHand` follows from `TypeInv` and from
what each step writes.

`BookingsProofs.tla` proves all five properties of `bookings`, for any number of
guests, staff and bookings:

1. `TypeInv`: TypeOK, which fields go with which step, and that nobody speaks of
   a booking that was not inserted.
2. `LinkInv`: a handler's booking is still its guest's or its order's (`Knows`,
   `HasOrders`), and a booking has one guest waiting for it or one order it is in
   (`Apart`). `Lasting` sums up what any step may do to a booking.
3. `HeldInv`: what a cancellation read of the booking is still so, unless the
   staff changed it. `ConfirmedStays` follows.
4. `SlotInv`: at most one booking is in the VIP table's slot and confirmed or
   about to be (`Has`), the marked ones left out. `SharedNeedsCause` follows;
   it is not inductive alone, because check and confirmation are two steps.

`OrderHasBooking` and `DraftHasDecider` are inductive over 1 and 2. What the latter
needs is that a step takes an undecided draft out of the row of `users`
(`AskedStays`), out of Redis (`DraftWaited`) or from a handler that is about to ask
(`AskingGoes`, `DraftAsking`) only with a mark. The attempt to
prove `OrderHasBooking` found an error of the model, which TLC did not reach with
one handler of the staff: the row of a deleted order was used again for the
guest's next order, and a confirmation under way found it. A deleted order now
stays deleted.

`DialogSessionProofs.tla` proves both properties of `dialog_session`, and its types, for any
number of requests and orders. `DialogInv` says of every request (`Sound`): a
message that found an operator has not got past its look at the row, and the row
still says so; a version it read is at most the row's, and while version and
state are the row's, nobody has written the session in between (`alone`). The
lemmas behind it show that every writer of the state counts the version up, or
leaves the state as it is (`Follows`).

`ShiftFocusProofs.tla` proves all three properties of `shift_focus`, for any
number of operators and requests and any number of mishaps; that TypeOK is an invariant is the lemma
`TypeAlways`. `CompletedOnce` needs `CountInv`: with `Owe(x)` the requests that
have set the done key of x and not yet committed its event, events and debts
together are at most the lives of the key, and as many when nothing has died.
`KeysAreIndexed` needs `IndexInv`: what a reader or a reset is about to take out
of an index has no key, or is known to be torn (`RemoverSure`).
`SharedNeedsOverlap` needs `LookInv`: a request that is choosing has met every
other that is (`Met`), and has seen every lease of those it has not (`Saw`). The
assumption on `Items` says that every part of the queue has a best item, which a
finite queue has.

`OrderProofs.tla` also proves both properties of `cart_merge`, and its types, for any
menu, any answers and carts of any length. The cart is a fold over sequences, so
the second half begins with folds. The library's induction theorems take an
operator as a parameter and are of no use here; `Along` takes a *set* of places
instead and follows from the well-foundedness of `<`. The library defines a fold by
a function it chooses: `FoldDefined` shows that there is one, `FoldPath` that the
chosen one goes through the values one expects, one place at a time. On these stand
`QtyOf` (a quantity is the last of the sums), `QtyAppend`, `QtyExcept` and
`QtyRemove` (what one changed line does to it), and per operator of the model

- `StoredIsLoaded`: joining the stored lines that have one key loses nothing,
  because lines of one key are of one dish (`DishOfWord`);
- `DeltaMerged`: a delta changes the quantity of its own dish only, and as it
  should, unless the cart has a line of the dish that its word does not lead to;
- `MergeAccounted`: so do the deltas of an answer, one after the other;
- `CartValidated`: the look-up strikes out the dishes on stop, and no other;
- `DeltasAccepted`: when no delta is new, none is accepted.

`CartInv` adds to the property and the types that every stored line's id is the dish
of its name, and that the message saved last has all its ids remembered
(`LastRemembered`); `RetryHarmless` follows from the latter, as a repeat has no new
deltas.

Only model-checked: liveness (`SendingResolves`, `Settles`), which is beyond the
prover, and what the runs `drained` and `repeated_ids` refute. The proofs assume nothing but the ASSUMEs of the modules
on their constants, which TLC evaluates in the runs.

## Plan

Done: OrderLifecycle with its proofs and its refinement of KitchenTicket;
ChatSerializer with its proofs and its refinement of MessageCustody; AgentActions,
DomainEvents, PaymentLedger, Bookings, DialogSession, ShiftFocus,
ChannelMessages and CartMerge with their proofs.
Next, in this order:

1. Refinement: an abstract account for PaymentLedger; the lemmas (`BookInv`)
   are there.
2. Order and payment composed: the prepayment gate of `handle_confirmation`
   against webhooks and edits, and the automatic send.
3. Fees and the split of a payment as pure operators; night preorders and the
   outreach crons.

## Not modelled, and why

Text, layout, prompts, prices and menus: data the properties do not look at.
Messages without an id (Telegram) have no claim and are outside ChatSerializer.
The Redis cache `wa:dedupe` only shortens the way to the same answer. Signature
checks and tenant filters decide whether a handler runs, not what it does. The
gates in front of a confirmation (stop list, unknown dishes, address) are a
nondeterministic refusal in OrderLifecycle. Providers, iiko, Telegram and
WhatsApp are external and appear as the outcomes the code distinguishes.

Reports and analytics, the executive hub and the state of a shift (S0 to S5) compute
views of the data and keep no state that outlives a request; the browser code
and the audio sessions are input and output. They are most of the repository's
lines and have no behaviour of several steps to check. User merging, billing
counters and rate limits keep state, in single statements; they come after the
plan above.
