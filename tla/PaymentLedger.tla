--------------------------- MODULE PaymentLedger ---------------------------
(***************************************************************************)
(* The money of one order: orders.prepayment_status, the table             *)
(* payment_transactions, the audit table payment_events and the "payment   *)
(* received" message to the guest.  It is written by the provider's        *)
(* webhooks (app/services/payment_webhook.py), the admin panel             *)
(* (app/api/admin/orders.py), the guest's edits of his cart                *)
(* (app/services/intent_router.py), and the expiry loop with its reminders *)
(* (app/main.py, payment_expiry.py, payment_reminder.py).                  *)
(*                                                                         *)
(* Each of these is one or more transactions at READ COMMITTED.  A         *)
(* transaction that has flushed a change of the row of orders holds its    *)
(* row lock until it commits: the other writers of that row wait, those    *)
(* that only touch payment_transactions do not.                            *)
(***************************************************************************)
EXTENDS Naturals, FiniteSets

CONSTANTS
    Requests,     \* runs of a handler or of the loop
    Payments,     \* payment ids given by the provider
    MaxTx         \* bound on the ids of payment_transactions

ASSUME LedgerAssumption == MaxTx \in Nat \ {0}

VARIABLES
    prepay,       \* orders.prepayment_status, committed
    version,      \* orders.row_version
    txs,          \* payment_transactions of the order, by id
    next,         \* the sequence of their ids
    events,       \* payment_events of the order: <<event_type, note>>
    notified,     \* "payment received" rows in the chat log
    told,         \* WhatsApp has taken a "payment received" message
    failed,       \* history: a send of it failed
    req,          \* what a request has read and where it is
    lost          \* history: a process died owing the guest the message

vars == <<prepay, version, txs, next, events, notified, told, failed, req, lost>>
order == <<prepay, version>>
guest == <<notified, told, failed>>

-----------------------------------------------------------------------------

Prepayments == {"not_required", "pending", "paid", "waived"}
Ids == 1..MaxTx
Kinds == {"none", "paid", "failed", "admin", "split_reset", "edit", "expiry"}
Steps == {"idle", "read", "recorded", "picked", "linking", "expired",
          "dispatch", "notify", "telling", "sending", "done"}

\* No row with this id; a row just initiated: its id at the provider is
\* overwritten by every webhook that touches it and is left out.
NoTx == [status |-> "none", pid |-> "none", stale |-> FALSE]
NewTx == [status |-> "pending", pid |-> "none", stale |-> FALSE]

Txs == [status: {"none", "pending", "paid", "failed", "expired"},
        pid: Payments \cup {"none"}, stale: BOOLEAN]

\* input: the payment of a webhook, the status an admin or an edit asks for.
\* pick: transactions a SELECT returned.  slot: the id of an uncommitted one.
Blank == [kind |-> "none", step |-> "idle", was |-> "pending", version |-> 0,
          input |-> "none", pick |-> {}, slot |-> 0]

\* The order is new: without prepayment, or due one, with or without a link.
Init ==
    /\ \E due, linked \in BOOLEAN :
        /\ linked => due
        /\ prepay = IF due THEN "pending" ELSE "not_required"
        /\ txs = [i \in Ids |-> IF linked /\ i = 1 THEN NewTx ELSE NoTx]
    /\ version = 1
    /\ next = 2
    /\ events = {}
    /\ notified = 0
    /\ told = FALSE /\ failed = FALSE
    /\ req = [r \in Requests |-> Blank]
    /\ lost = FALSE

-----------------------------------------------------------------------------

Is(r, k, s) == req[r].kind = k /\ req[r].step = s

Goto(r, s) == req' = [req EXCEPT ![r].step = s]
End(r) == req' = [req EXCEPT ![r] = [Blank EXCEPT !.kind = req[r].kind, !.step = "done"]]

\* The request's transaction has flushed a change of the row of orders.
HoldsOrder(r) == Is(r, "paid", "picked") \/ Is(r, "edit", "linking")
OrderFree == \A r \in Requests : ~HoldsOrder(r)

\* Mutant of Written: an UPDATE of all the columns.
WrittenAlways(new, was, now) == new

\* The ORM writes a column only if the value differs from the one loaded.
Written(new, was, now) == IF new # was THEN new ELSE now

Pending == {i \in Ids : txs[i].status = "pending"}

\* ORDER BY id DESC LIMIT 1
Latest(S) == {i \in S : \A j \in S : j <= i}

\* A request begins: it loads the order and takes its input from the body.
Begin(r, k, in) ==
    /\ req[r].step = "idle"
    /\ req' = [req EXCEPT ![r] =
                [Blank EXCEPT !.kind = k, !.step = "read", !.was = prepay,
                              !.version = version, !.input = in]]
    /\ UNCHANGED <<order, txs, next, events, guest, lost>>

Receive(r) == \E k \in {"paid", "failed"}, p \in Payments : Begin(r, k, p)
AdminRead(r) == \E s \in Prepayments : Begin(r, "admin", s)
SplitRead(r) == Begin(r, "split_reset", "pending")
EditRead(r) == \E s \in {"pending", "not_required"} : Begin(r, "edit", s)

-----------------------------------------------------------------------------
(* apply_payment_webhook. *)

Webhook(r) == req[r].kind \in {"paid", "failed"}

\* Mutant of WebhookEvent: the event type is the webhook's status itself.
WebhookEventBare(r) == <<req[r].kind, req[r].input>>

WebhookEvent(r) ==
    <<IF req[r].kind = "paid" THEN "webhook_paid" ELSE "webhook_failed", req[r].input>>

\* Mutant of Recorded: the conflict on (order, event type, note) is ignored.
RecordedNever(r) == FALSE

\* The event is there already: rowcount = 0.
Recorded(r) == WebhookEvent(r) \in events

\* INSERT ... ON CONFLICT DO NOTHING waits for an uncommitted event with the
\* same key.
Record(r) ==
    /\ Webhook(r) /\ req[r].step = "read"
    /\ \A q \in Requests :
        Webhook(q) /\ req[q].step \in {"recorded", "picked"} => WebhookEvent(q) # WebhookEvent(r)
    /\ IF Recorded(r) THEN End(r) ELSE Goto(r, "recorded")
    /\ UNCHANGED <<order, txs, next, events, guest, lost>>

\* Mutant of MayPick: the order is flushed after the SELECT (no autoflush).
MayPickAlways(r) == TRUE

\* _upsert_payment_transaction: SELECT the latest pending transaction.  For a
\* paid webhook autoflush first sends the UPDATE of the order.
MayPick(r) == req[r].kind = "paid" => OrderFree

PickTx(r) ==
    /\ Webhook(r) /\ req[r].step = "recorded"
    /\ MayPick(r)
    /\ req' = [req EXCEPT ![r].step = "picked", ![r].pick = Latest(Pending)]
    /\ UNCHANGED <<order, txs, next, events, guest, lost>>

\* The transaction is updated by primary key, or inserted; commit.
SaveWebhook(r) ==
    /\ Webhook(r) /\ req[r].step = "picked"
    /\ LET new == req[r].pick = {}
           ids == IF new THEN {next} ELSE req[r].pick
       IN /\ new => next \in Ids
          /\ next' = IF new THEN next + 1 ELSE next
          /\ txs' = [i \in Ids |->
                IF i \in ids
                THEN [txs[i] EXCEPT !.status = req[r].kind, !.pid = req[r].input]
                ELSE txs[i]]
    /\ events' = events \cup {WebhookEvent(r)}
    /\ IF req[r].kind = "paid"
       THEN prepay' = Written("paid", req[r].was, prepay) /\ Goto(r, "dispatch")
       ELSE UNCHANGED prepay /\ End(r)
    /\ UNCHANGED <<version, guest, lost>>

-----------------------------------------------------------------------------
(* The admin panel. *)

AdminEventType ==
    [s \in Prepayments |->
        CASE s = "paid"   -> "prepayment_confirmed"
          [] s = "waived" -> "prepayment_waived"
          [] OTHER        -> "manual_reset"]

\* Bug: only the webhook tells the guest.
AdminNotifiesNever(was, new) == FALSE

AdminEvent(was, new) ==
    IF new = was THEN {} ELSE {<<AdminEventType[new], <<was, new>>>>}

AdminNotifies(was, new) == new = "paid" /\ was # "paid"

\* patch_order_payment_meta.  The unique key of payment_events has no time in
\* it: the same change made a second time breaks it and is rolled back.
AdminSave(r) ==
    /\ Is(r, "admin", "read")
    /\ OrderFree
    /\ LET was == req[r].was
           new == req[r].input
       IN IF AdminEvent(was, new) \cap events # {}
          THEN End(r) /\ UNCHANGED <<prepay, events>>
          ELSE /\ prepay' = Written(new, was, prepay)
               /\ events' = events \cup AdminEvent(was, new)
               /\ IF AdminNotifies(was, new) THEN Goto(r, "dispatch") ELSE End(r)
    /\ UNCHANGED <<version, txs, next, guest, lost>>

\* patch_order_status, draft -> confirmed with a split payment that does not
\* add up to the total: answered with 409 after this write.
SplitReset(r) ==
    /\ Is(r, "split_reset", "read")
    /\ OrderFree
    /\ prepay' = Written("pending", req[r].was, prepay)
    /\ End(r)
    /\ UNCHANGED <<version, txs, next, events, guest, lost>>

-----------------------------------------------------------------------------
(* _handle_order: the guest edits his cart.  The new total decides whether a *)
(* prepayment is due; if it is and everything else is known the provider is  *)
(* asked for a link, with the row of the order already updated.              *)

\* persist_draft_order_optimistic_update.
EditUpdate(r) ==
    /\ Is(r, "edit", "read")
    /\ OrderFree
    /\ IF version # req[r].version
       THEN End(r) /\ UNCHANGED next
       ELSE \E link \in BOOLEAN :
            /\ link => req[r].input = "pending" /\ next \in Ids
            /\ next' = IF link THEN next + 1 ELSE next
            /\ req' = [req EXCEPT ![r].step = "linking", ![r].slot = IF link THEN next ELSE 0]
    /\ UNCHANGED <<order, txs, events, guest, lost>>

\* The provider's answer, or its failure, which is kept; commit.
EditCommit(r) ==
    /\ Is(r, "edit", "linking")
    /\ prepay' = req[r].input
    /\ version' = version + 1
    /\ \E s \in {"pending", "failed"} :
        txs' = [i \in Ids |-> IF i = req[r].slot THEN [NewTx EXCEPT !.status = s] ELSE txs[i]]
    /\ End(r)
    /\ UNCHANGED <<next, events, guest, lost>>

-----------------------------------------------------------------------------
(* The expiry loop. *)

\* expires_at passes.
Elapse(i) ==
    /\ txs[i].status = "pending" /\ ~txs[i].stale
    /\ txs' = [txs EXCEPT ![i].stale = TRUE]
    /\ UNCHANGED <<order, next, events, guest, req, lost>>

\* expire_stale_payment_transactions: SELECT.  A Redis lock of 900 seconds
\* keeps the cycles of several instances apart.
ExpiryRead(r) ==
    /\ req[r].step = "idle"
    /\ \A q \in Requests : req[q].kind = "expiry" => req[q].step = "done"
    /\ LET due == {i \in Pending : txs[i].stale}
       IN /\ due # {}
          /\ req' = [req EXCEPT ![r] =
                [Blank EXCEPT !.kind = "expiry", !.step = "picked", !.pick = due]]
    /\ UNCHANGED <<order, txs, next, events, guest, lost>>

\* UPDATE ... WHERE id IN (the ids read), without a look at the status.
ExpirySave(r) ==
    /\ Is(r, "expiry", "picked")
    /\ txs' = [i \in Ids |->
                IF i \in req[r].pick THEN [txs[i] EXCEPT !.status = "expired"] ELSE txs[i]]
    /\ Goto(r, "expired")
    /\ UNCHANGED <<order, next, events, guest, lost>>

\* send_payment_reminder for one of the expired transactions: an order that
\* waits for its payment gets a new transaction and the provider is asked for
\* a link.  Nothing of the order is flushed before the answer.
RemindRead(r) ==
    /\ Is(r, "expiry", "expired")
    /\ \E i \in req[r].pick :
        LET rest == [req[r] EXCEPT !.pick = @ \ {i}]
        IN IF prepay = "pending"
           THEN /\ next \in Ids
                /\ next' = next + 1
                /\ req' = [req EXCEPT ![r] =
                    [rest EXCEPT !.step = "linking", !.slot = next, !.was = prepay]]
           ELSE req' = [req EXCEPT ![r] = rest] /\ UNCHANGED next
    /\ UNCHANGED <<order, txs, events, guest, lost>>

\* The provider's answer; commit.
RemindSave(r) ==
    /\ Is(r, "expiry", "linking")
    /\ OrderFree
    /\ prepay' = Written("pending", req[r].was, prepay)
    /\ txs' = [txs EXCEPT ![req[r].slot] = NewTx]
    /\ Goto(r, "expired")
    /\ UNCHANGED <<version, next, events, guest, lost>>

\* No provider is configured, or it fails: the session is closed uncommitted.
RemindFails(r) ==
    /\ Is(r, "expiry", "linking")
    /\ Goto(r, "expired")
    /\ UNCHANGED <<order, txs, next, events, guest, lost>>

ExpiryEnds(r) ==
    /\ Is(r, "expiry", "expired")
    /\ req[r].pick = {}
    /\ End(r)
    /\ UNCHANGED <<order, txs, next, events, guest, lost>>

-----------------------------------------------------------------------------
(* After the commit: run_payment_received_customer_notify, queued. *)

\* The request owes the guest the message.
Telling(r) == req[r].step \in {"dispatch", "notify", "telling", "sending"}

Dispatch(r) ==
    /\ req[r].step = "dispatch"
    /\ Goto(r, "notify")
    /\ UNCHANGED <<order, txs, next, events, guest, lost>>

\* A new session reads the order and looks for an earlier message.
NotifyRead(r) ==
    /\ req[r].step = "notify"
    /\ IF prepay = "paid" /\ notified = 0 THEN Goto(r, "telling") ELSE End(r)
    /\ UNCHANGED <<order, txs, next, events, guest, lost>>

\* The row of the chat log is committed before anything is sent: from here on
\* no other job tells the guest.
NotifySave(r) ==
    /\ req[r].step = "telling"
    /\ notified' = notified + 1
    /\ Goto(r, "sending")
    /\ UNCHANGED <<order, txs, next, events, told, failed, lost>>

\* send_customer_text.  The guest has no phone, the call raises, or WhatsApp
\* refuses: that is logged, and nobody tries again.
NotifySend(r) ==
    /\ req[r].step = "sending"
    /\ \E ok \in BOOLEAN : told' = (told \/ ok) /\ failed' = (failed \/ ~ok)
    /\ End(r)
    /\ UNCHANGED <<order, txs, next, events, notified, lost>>

\* The process dies.  An open transaction is rolled back; the message owed
\* after a commit is kept nowhere but in the process (or in a queue that may
\* refuse it).
Crash(r) ==
    /\ req[r].step \notin {"idle", "done"}
    /\ lost' = (lost \/ Telling(r))
    /\ End(r)
    /\ UNCHANGED <<order, txs, next, events, guest>>

-----------------------------------------------------------------------------

HandleWebhook(r) == Receive(r) \/ Record(r) \/ PickTx(r) \/ SaveWebhook(r)
HandleAdmin(r) == AdminRead(r) \/ AdminSave(r) \/ SplitRead(r) \/ SplitReset(r)
HandleEdit(r) == EditRead(r) \/ EditUpdate(r) \/ EditCommit(r)
Expire(r) ==
    ExpiryRead(r) \/ ExpirySave(r) \/ RemindRead(r) \/ RemindSave(r) \/ RemindFails(r)
        \/ ExpiryEnds(r)
Notify(r) == Dispatch(r) \/ NotifyRead(r) \/ NotifySave(r) \/ NotifySend(r)

Next ==
    \/ \E r \in Requests :
        HandleWebhook(r) \/ HandleAdmin(r) \/ HandleEdit(r) \/ Expire(r) \/ Notify(r) \/ Crash(r)
    \/ \E i \in Ids : Elapse(i)

Spec == Init /\ [][Next]_vars
-----------------------------------------------------------------------------
(* Properties. *)

AdminEvents ==
    {"prepayment_confirmed", "prepayment_waived", "manual_reset"} \X (Prepayments \X Prepayments)
WebhookEvents == {"webhook_paid", "webhook_failed"} \X Payments

Requested ==
    [kind: Kinds, step: Steps, was: Prepayments, version: Nat,
     input: Payments \cup Prepayments \cup {"none"}, pick: SUBSET Ids, slot: 0..MaxTx]

\* Every column keeps its type.
TypeOK ==
    /\ prepay \in Prepayments
    /\ version \in Nat
    /\ txs \in [Ids -> Txs]
    /\ next \in 1..(MaxTx + 1)
    /\ events \subseteq AdminEvents \cup WebhookEvents
    /\ notified \in Nat
    /\ told \in BOOLEAN /\ failed \in BOOLEAN
    /\ req \in [Requests -> Requested]
    /\ lost \in BOOLEAN

\* An order is shown as paid only if a webhook or an admin has recorded the
\* payment in the audit table, whichever of the handlers wrote last.
PaidHasEvent ==
    prepay = "paid" => \E e \in events : e[1] \in {"webhook_paid", "prepayment_confirmed"}

\* The money of one payment is booked in one transaction, however often the
\* provider repeats the webhook and whatever else happens to the transactions.
BookedOnce ==
    \A i, j \in Ids :
        /\ txs[i].status = "paid" /\ txs[j].status = "paid"
        /\ txs[i].pid = txs[j].pid
        => i = j

\* A request that read the transaction while it was pending and will write it
\* without a second look: a failed webhook, or the expiry loop.
Overtaking(r, i) ==
    req[r].kind \in {"failed", "expiry"} /\ req[r].step = "picked" /\ i \in req[r].pick

\* A booked payment is overwritten only by a failed webhook or an expiry that
\* was under way when it was booked.  In particular two payments that come in
\* at the same time never take the same pending transaction.
BookingStays ==
    [][\A i \in Ids :
        txs[i].status = "paid" /\ txs'[i] # txs[i] => \E r \in Requests : Overtaking(r, i)]_vars

\* Only a person takes "paid" back, the guest by changing his cart or an admin:
\* no reminder and no webhook does, even one that began before the payment.
PaidTakenBackByHand ==
    [][prepay = "paid" /\ prepay' # "paid"
        => \E r \in Requests : req[r].kind \in {"edit", "admin", "split_reset"}
                                 /\ req[r].step # "done" /\ req'[r].step = "done"]_vars

\* The guest of a paid order has been told so, or is about to be; the named
\* ways to lose the message are a process that died owing it and a send that
\* failed after the row that keeps the others from trying was committed.  No
\* order of duplicates, resets and second payments makes every one of the
\* handlers leave it to another.
PaidIsTold ==
    prepay = "paid" => told \/ lost \/ failed \/ \E r \in Requests : Telling(r)

-----------------------------------------------------------------------------
(* What the documentation says and the code does not do. *)

\* expire_stale_payment_transactions: "moves pending transactions whose
\* expires_at has passed to expired".
ExpiryOnlyPending ==
    [][\A i \in Ids :
        txs'[i].status = "expired" => txs[i].status \in {"pending", "expired"}]_vars

\* run_payment_received_customer_notify: "idempotent: one system message per
\* order".
NotifiedOnce == notified <= 1
=============================================================================
