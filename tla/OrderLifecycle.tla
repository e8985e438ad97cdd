--------------------------- MODULE OrderLifecycle ---------------------------
(***************************************************************************)
(* One row of the table "orders" and every handler that writes it: the     *)
(* guest's chat (app/api/webhooks.py, app/services/intent_router.py), the  *)
(* admin panel (app/api/admin/orders.py) and the automatic send to the     *)
(* kitchen after a payment (app/services/payment_autoprint_iiko.py).       *)
(*                                                                         *)
(* A handler reads the row, awaits (menu, organisation, iiko) and then     *)
(* writes.  Postgres runs at READ COMMITTED and no handler takes a row     *)
(* lock, so between the read and the write other handlers commit.  Each    *)
(* handler is therefore two steps or more: Read, which takes the snapshot  *)
(* "seen", and the commit, an action per operation.  The ORM writes only   *)
(* the columns that differ from the snapshot; items_json (here "lines" and *)
(* "pay") is one column and is always written whole.                       *)
(***************************************************************************)
EXTENDS Naturals, FiniteSets

CONSTANTS
    Requests,     \* handler invocations: each runs one handler, once
    Carts,        \* contents of items_json["items"]
    Methods,      \* values of items_json["order_meta"]["payment_method"]
    NoMethod,     \* the guest has not said yet how he pays
    FirstCart     \* the cart the order was created with

ASSUME ConstantsAssumption ==
    /\ FirstCart \in Carts
    /\ NoMethod \notin Methods

VARIABLES
    order,        \* the committed row
    kind,         \* which handler the request runs
    step,         \* where it is
    seen,         \* the row as the handler's session loaded it
    input,        \* the request's body: a cart, a method, a target status
    reply,        \* iiko answered that it accepted the order
    tickets,      \* requests whose create-order call iiko accepted
    logged,       \* idempotency keys of system_events about this order
    collided      \* history: a status write hit a status the writer never saw

vars == <<order, kind, step, seen, input, reply, tickets, logged, collided>>

-----------------------------------------------------------------------------
(* Statuses (OrderStatus), handlers and steps. *)

KitchenStatuses == {"sent_to_iiko", "in_transit", "waiting_pickup", "completed"}

Statuses == {"draft", "confirmed", "sending_to_iiko", "cancelled"} \cup KitchenStatuses

\* The transitions of the kanban after the kitchen has the order.
FulfillmentAllowed ==
    [s \in Statuses |->
        CASE s = "sent_to_iiko"   -> {"in_transit", "waiting_pickup", "completed"}
          [] s = "in_transit"     -> {"waiting_pickup", "completed", "sent_to_iiko"}
          [] s = "waiting_pickup" -> {"completed", "in_transit", "sent_to_iiko"}
          [] OTHER                -> {}]

Confirming == {"guest_confirm", "admin_confirm"}
Sending    == {"admin_send", "auto_send"}
CartWriters == {"guest_edit", "payment_choice", "payment_split", "rebuild"}

Kinds == Confirming \cup Sending \cup CartWriters \cup
         {"revert", "fulfil", "cancel_draft", "cancel_all", "bulk_cancel", "delete"}

\* Mutant of ReadsIn: "back to draft" also accepts a cancelled order.
ReadsInRevivesCancelled(k) ==
    CASE k \in {"guest_edit", "payment_choice", "cancel_draft", "cancel_all"}
                                            -> {"draft"}
      [] k \in Confirming                   -> {"draft"}
      [] k \in {"rebuild", "payment_split"} -> {"draft", "confirmed"}
      [] k = "revert"                       -> {"confirmed", "cancelled"}
      [] k = "admin_send"                   -> {"confirmed"}
      [] k = "auto_send"                    -> {"draft", "confirmed"}
      [] k = "fulfil"                       -> {"sent_to_iiko", "in_transit", "waiting_pickup"}
      [] k = "bulk_cancel"                  -> Statuses \ {"cancelled"}
      [] OTHER                              -> Statuses

\* The statuses a handler's first check lets through; on any other it returns
\* or answers 400/409 and writes nothing.
ReadsIn(k) ==
    CASE k \in {"guest_edit", "payment_choice", "cancel_draft", "cancel_all"}
                                           -> {"draft"}
      [] k \in Confirming                  -> {"draft"}
      [] k \in {"rebuild", "payment_split"} -> {"draft", "confirmed"}
      [] k = "revert"                      -> {"confirmed"}
      [] k = "admin_send"                  -> {"confirmed"}
      [] k = "auto_send"                   -> {"draft", "confirmed"}
      [] k = "fulfil"                      -> {"sent_to_iiko", "in_transit", "waiting_pickup"}
      [] k = "bulk_cancel"                 -> Statuses \ {"cancelled"}
      [] OTHER                             -> Statuses

\* The bodies a request of kind k may carry for a row in state o.
Bodies(k, o) ==
    CASE k \in {"guest_edit", "rebuild"}              -> Carts \ {o.lines}
      [] k \in {"payment_choice", "payment_split"}    -> Methods \ {o.pay}
      [] k = "fulfil"                                 -> FulfillmentAllowed[o.status]
      [] OTHER                                        -> {NoMethod}

\* Mutant of EventsOf: the automatic send confirms a draft without the event.
EventsOfSilentAuto(k) ==
    CASE k \in Confirming                      -> {"order.confirmed"}
      [] k \in {"cancel_draft", "bulk_cancel"} -> {"order.cancelled"}
      [] OTHER                                 -> {}

\* The durable event a handler records in its transaction.
\* cancel_all_draft_orders_for_phone records none.
EventsOf(k) ==
    CASE k \in Confirming \cup {"auto_send"}     -> {"order.confirmed"}
      [] k \in {"cancel_draft", "bulk_cancel"}   -> {"order.cancelled"}
      [] OTHER                                   -> {}

\* A claim on the row is held from the conditional UPDATE to the final write.
Holding == {"claimed", "answered", "finishing"}

Steps == {"idle", "read", "reload", "saved", "rejected", "done", "lost"} \cup Holding

Rows == [live: BOOLEAN, status: Statuses, version: Nat,
         lines: Carts, pay: Methods \cup {NoMethod}, total: Carts]

NewRow == [live |-> TRUE, status |-> "draft", version |-> 1,
           lines |-> FirstCart, pay |-> NoMethod, total |-> FirstCart]

\* The order exists as a draft, made by the guest's chat or by the admin's
\* "manual order" form; both leave row_version = 1.
Init ==
    /\ order = NewRow
    /\ kind = [r \in Requests |-> "delete"]
    /\ step = [r \in Requests |-> "idle"]
    /\ seen = [r \in Requests |-> NewRow]
    /\ input = [r \in Requests |-> NoMethod]
    /\ reply = [r \in Requests |-> FALSE]
    /\ tickets = {}
    /\ logged = {"order.created"}
    /\ collided = FALSE

-----------------------------------------------------------------------------
(* The first half of every handler. *)

Goto(r, s) == step' = [step EXCEPT ![r] = s] /\ UNCHANGED <<seen, input>>

\* The request is answered and its session closed: the snapshot is gone.
End(r, s) ==
    /\ step' = [step EXCEPT ![r] = s]
    /\ seen' = [seen EXCEPT ![r] = NewRow]
    /\ input' = [input EXCEPT ![r] = NoMethod]

\* The session loads the row.
Load(r, s) ==
    /\ step' = [step EXCEPT ![r] = s]
    /\ seen' = [seen EXCEPT ![r] = order]

\* SELECT the order and check its status.
Read(r) ==
    /\ step[r] = "idle"
    /\ order.live
    /\ \E k \in Kinds :
        /\ order.status \in ReadsIn(k)
        /\ kind' = [kind EXCEPT ![r] = k]
        /\ \E b \in Bodies(k, order) : input' = [input EXCEPT ![r] = b]
    /\ Load(r, "read")
    /\ UNCHANGED <<order, reply, tickets, logged, collided>>

\* The handler ends without a write: a gate or a validation refuses (stop
\* list, unknown dish, mixed split), or the transaction is rolled back,
\* which is also what an ORM write on a deleted row comes to.
Refuse(r) ==
    /\ step[r] = "read"
    /\ End(r, "rejected")
    /\ UNCHANGED <<order, kind, reply, tickets, logged, collided>>

At(r, s, ks) == step[r] = s /\ kind[r] \in ks

\* Writing the column "status" of a row that has meanwhile got another one.
Overwrites(r) == order.status # seen[r].status

\* Session.commit of an ORM change of the row, then the answer.
Commit(r, row) ==
    /\ order.live
    /\ order' = row
    /\ UNCHANGED <<kind, reply, tickets>>

-----------------------------------------------------------------------------
(* Writers of the cart. *)

\* persist_draft_order_optimistic_update: UPDATE ... WHERE id AND status =
\* 'draft' AND row_version = the one read.  The payment method is the one of
\* the draft that was read.
SaveGuestEdit(r) ==
    /\ At(r, "read", {"guest_edit"})
    /\ order.status = "draft" /\ order.version = seen[r].version
    /\ Commit(r, [order EXCEPT !.lines = input[r], !.total = input[r],
                               !.pay = seen[r].pay, !.version = @ + 1])
    /\ End(r, "saved")
    /\ UNCHANGED <<logged, collided>>

\* handle_order_payment_choice: items_json of the snapshot with the method
\* set, no look at row_version.
SavePaymentChoice(r) ==
    /\ At(r, "read", {"payment_choice"})
    /\ Commit(r, [order EXCEPT !.lines = seen[r].lines, !.pay = input[r]])
    /\ End(r, "saved")
    /\ UNCHANGED <<logged, collided>>

\* patch_order_payment_split: the same, and row_version = the one read + 1.
SavePaymentSplit(r) ==
    /\ At(r, "read", {"payment_split"})
    /\ Commit(r, [order EXCEPT !.lines = seen[r].lines, !.pay = input[r],
                               !.version = seen[r].version + 1])
    /\ End(r, "saved")
    /\ UNCHANGED <<logged, collided>>

\* rebuild_order_draft: a new cart and its total; the meta of the snapshot.
SaveRebuild(r) ==
    /\ At(r, "read", {"rebuild"})
    /\ Commit(r, [order EXCEPT
            !.lines = input[r],
            !.total = IF input[r] # seen[r].total THEN input[r] ELSE @,
            !.pay = seen[r].pay,
            !.version = seen[r].version + 1])
    /\ End(r, "saved")
    /\ UNCHANGED <<logged, collided>>

-----------------------------------------------------------------------------
(* Writers of the status. *)

\* confirm_order, when the gate lets it through: what it wants to know depends
\* on the kind of order (one eaten in the hall needs no payment method), and a
\* refusal is Refuse.  row_version is not touched.
ConfirmOrder(r) ==
    /\ step[r] = "read"
    /\ kind[r] \in Confirming \cup {"auto_send"}
    /\ seen[r].status = "draft"
    /\ Commit(r, [order EXCEPT !.status = "confirmed"])
    /\ IF kind[r] = "auto_send" THEN Goto(r, "reload") ELSE End(r, "saved")
    /\ logged' = logged \cup EventsOf(kind[r])
    /\ collided' = (collided \/ Overwrites(r))

\* The automatic send refreshes the row it has just confirmed.
Reload(r) ==
    /\ step[r] = "reload"
    /\ IF order.live /\ order.status = "confirmed"
       THEN Load(r, "read") /\ UNCHANGED input
       ELSE End(r, "done")
    /\ UNCHANGED <<order, kind, reply, tickets, logged, collided>>

\* patch_order_status, confirmed -> draft.
RevertToDraft(r) ==
    /\ At(r, "read", {"revert"})
    /\ Commit(r, [order EXCEPT !.status = "draft"])
    /\ End(r, "saved")
    /\ collided' = (collided \/ Overwrites(r))
    /\ UNCHANGED logged

\* patch_order_status among the statuses of the kitchen; the whole of
\* items_json is written back with the fulfilment event.
Fulfil(r) ==
    /\ At(r, "read", {"fulfil"})
    /\ Commit(r, [order EXCEPT !.status = input[r], !.lines = seen[r].lines,
                               !.pay = seen[r].pay, !.version = seen[r].version + 1])
    /\ End(r, "saved")
    /\ collided' = (collided \/ Overwrites(r))
    /\ UNCHANGED logged

\* cancel_order and bulk_cancel_orders record order.cancelled;
\* cancel_all_draft_orders_for_phone records nothing.
Cancel(r) ==
    /\ At(r, "read", {"cancel_draft", "cancel_all", "bulk_cancel"})
    /\ Commit(r, [order EXCEPT !.status = "cancelled"])
    /\ End(r, "saved")
    /\ logged' = logged \cup EventsOf(kind[r])
    /\ collided' = (collided \/ Overwrites(r))

Delete(r) ==
    /\ At(r, "read", {"delete"})
    /\ Commit(r, [order EXCEPT !.live = FALSE])
    /\ End(r, "saved")
    /\ UNCHANGED <<logged, collided>>

-----------------------------------------------------------------------------
(* Sending to iiko: claim, call, final write.  The claim is one conditional *)
(* UPDATE, committed before the call; the final write uses a new session.   *)

\* Mutant of Claimable: the claim is an UPDATE by primary key alone.
ClaimableAlways(r) == TRUE

\* The WHERE clause of the claim.
Claimable(r) == order.status = "confirmed" /\ order.version = seen[r].version

Claim(r) ==
    /\ At(r, "read", Sending)
    /\ seen[r].status = "confirmed"
    /\ Claimable(r)
    /\ Commit(r, [order EXCEPT !.status = "sending_to_iiko", !.version = @ + 1])
    /\ Goto(r, "claimed")
    /\ UNCHANGED <<logged, collided>>

\* _send_order_to_iiko: iiko accepts and says so, refuses (or is not
\* configured), or accepts and the answer is lost: any exception is a failure.
CallIiko(r) ==
    /\ step[r] = "claimed"
    /\ \E accepted, told \in BOOLEAN :
        /\ told => accepted
        /\ tickets' = IF accepted THEN tickets \cup {r} ELSE tickets
        /\ reply' = [reply EXCEPT ![r] = told]
    /\ Goto(r, "answered")
    /\ UNCHANGED <<order, kind, logged, collided>>

FinishRead(r) ==
    /\ step[r] = "answered"
    /\ IF order.live
       THEN Load(r, "finishing") /\ UNCHANGED input
       ELSE End(r, "done")
    /\ UNCHANGED <<order, kind, reply, tickets, logged, collided>>

\* Mutants of Outcome: the refusal branch forgets to put the order back; the
\* answer of iiko is not looked at; the status is one no one knows.
OutcomeForgetsRefusal(r) == IF reply[r] THEN "sent_to_iiko" ELSE "sending_to_iiko"
OutcomeAlwaysSent(r) == "sent_to_iiko"
OutcomeMisspelt(r) == IF reply[r] THEN "sent" ELSE "confirmed"

\* The status the final write leaves: sent, or back to confirmed.
Outcome(r) == IF reply[r] THEN "sent_to_iiko" ELSE "confirmed"

\* The status is written when it differs from the one just loaded; iiko's
\* answer is merged into items_json.
FinishWrite(r) ==
    /\ step[r] = "finishing"
    /\ LET writes == Outcome(r) # seen[r].status
       IN /\ Commit(r, [order EXCEPT
                !.status = IF writes THEN Outcome(r) ELSE @,
                !.version = seen[r].version + 1,
                !.lines = IF reply[r] THEN seen[r].lines ELSE @,
                !.pay = IF reply[r] THEN seen[r].pay ELSE @])
          /\ collided' = (collided \/ (writes /\ Overwrites(r)))
    /\ End(r, "done")
    /\ UNCHANGED logged

\* The row was deleted under the final write.
FinishGone(r) ==
    /\ step[r] = "finishing"
    /\ ~order.live
    /\ End(r, "done")
    /\ UNCHANGED <<order, kind, reply, tickets, logged, collided>>

\* The process dies, or the client's disconnect cancels the handler.
Crash(r) ==
    /\ step[r] \in Holding \cup {"reload"}
    /\ End(r, "lost")
    /\ UNCHANGED <<order, kind, reply, tickets, logged, collided>>

-----------------------------------------------------------------------------

EditCart(r) ==
    SaveGuestEdit(r) \/ SavePaymentChoice(r) \/ SavePaymentSplit(r) \/ SaveRebuild(r)

ChangeStatus(r) ==
    ConfirmOrder(r) \/ RevertToDraft(r) \/ Fulfil(r) \/ Cancel(r) \/ Delete(r)

Send(r) ==
    Reload(r) \/ Claim(r) \/ CallIiko(r) \/ FinishRead(r) \/ FinishWrite(r) \/ FinishGone(r)

Next ==
    \E r \in Requests :
        Read(r) \/ Refuse(r) \/ EditCart(r) \/ ChangeStatus(r) \/ Send(r) \/ Crash(r)

\* The HTTP client to iiko has a timeout and the final write follows it, so a
\* send that has claimed the row goes on unless its process dies.
Fairness == \A r \in Requests :
    /\ WF_vars(CallIiko(r))
    /\ WF_vars(FinishRead(r))
    /\ WF_vars(FinishWrite(r) \/ FinishGone(r))

Spec == Init /\ [][Next]_vars /\ Fairness
-----------------------------------------------------------------------------
(* Properties. *)

\* Every column keeps its type and every request is at a known step.
TypeOK ==
    /\ order \in Rows
    /\ kind \in [Requests -> Kinds]
    /\ step \in [Requests -> Steps]
    /\ seen \in [Requests -> Rows]
    /\ input \in [Requests -> Carts \cup Methods \cup {NoMethod} \cup Statuses]
    /\ reply \in [Requests -> BOOLEAN]
    /\ tickets \subseteq Requests
    /\ logged \subseteq {"order.created", "order.confirmed", "order.cancelled"}
    /\ collided \in BOOLEAN

\* A send that will still write the status it owes, or that died owing it.
Owes(r) ==
    \/ step[r] \in {"claimed", "answered"}
    \/ step[r] = "finishing" /\ seen[r].status = "sending_to_iiko"
    \/ step[r] = "lost" /\ kind[r] \in Sending

\* An order shows "sending to the kitchen" only while some send is under way
\* or was killed under way: whatever else is committed in between, the final
\* write of patch_order_status or of the automatic send never leaves the
\* status behind.
SendingHasOwner ==
    order.live /\ order.status = "sending_to_iiko" => \E r \in Requests : Owes(r)

\* Staff and guest are told that the kitchen has the order, or that it is on
\* its way, only if iiko has accepted it at least once.
SentHasTicket == order.status \in KitchenStatuses => tickets # {}

\* Event-first, for the half the code keeps: an order that is confirmed or
\* further has its order.confirmed event, on every path to that status.
ConfirmedHasEvent ==
    order.status \in {"confirmed", "sending_to_iiko"} \cup KitchenStatuses
        => "order.confirmed" \in logged

\* An accepted ticket whose sender was told of a failure, or died.
Unreported(r) == r \in tickets /\ (~reply[r] \/ step[r] = "lost")

\* How far the claim protects the kitchen from cooking an order twice: a
\* second ticket needs a send whose success was not reported or whose process
\* died, or a status write over a status its writer had not seen.
DuplicateNeedsCause ==
    Cardinality(tickets) > 1 => collided \/ \E r \in Requests : Unreported(r)

\* A cancelled order comes back to life only by the final write of a send
\* that was under way, or by a status write over a status its writer had not
\* seen.  (No handler reads a cancelled order and revives it.)
CancelUndoneOnlyBySend ==
    [][order.status = "cancelled" /\ order'.status # "cancelled"
        => collided' \/ \E r \in Requests : step[r] = "finishing" /\ step'[r] = "done"]_vars

\* An order does not stay in "sending to the kitchen" unless the process that
\* was sending it died; nothing repairs that case.
SendingResolves ==
    order.live /\ order.status = "sending_to_iiko"
        ~> \/ ~order.live \/ order.status # "sending_to_iiko"
           \/ \E r \in Requests : step[r] = "lost"

-----------------------------------------------------------------------------
(* What the row and the handlers mean to the kitchen. *)

ShownStatus ==
    IF ~order.live THEN "gone" ELSE
    CASE order.status = "sending_to_iiko"   -> "sending"
      [] order.status = "cancelled"         -> "cancelled"
      [] order.status \in KitchenStatuses   -> "sent"
      [] OTHER                              -> "open"

Progress(s) ==
    CASE s = "claimed"                   -> "claimed"
      [] s \in {"answered", "finishing"} -> "asked"
      [] s \in {"done", "lost"}          -> "over"
      [] OTHER                           -> "waiting"

Sends == [r \in Requests |-> Progress(step[r])]

Kitchen == INSTANCE KitchenTicket
             WITH Senders <- Requests, shown <- ShownStatus, sends <- Sends,
                  tickets <- tickets

\* Every interleaving of the handlers is a run of the abstract specification
\* KitchenTicket: an order is claimed only while it is open, nobody but a
\* claim shows "sending", each send asks once, "sent" needs a ticket.
SendsAsPromised == Kitchen!Spec

-----------------------------------------------------------------------------
(* What the documentation says and the code does not do. *)

Saves(r) == kind[r] \in CartWriters /\ step[r] = "read" /\ step'[r] = "saved"

\* docs/CONVENTIONS.md, rule 6: a draft is updated through optimistic locking
\* by row_version.  So what is saved in a draft was computed from the draft
\* as it is.
DraftEditsBuildOnLatest ==
    [][\A r \in Requests :
        Saves(r) /\ order.status = "draft"
            => seen[r].lines = order.lines /\ seen[r].pay = order.pay]_vars

\* rebuild_order_draft: "after sent_to_iiko it is not allowed".  So the cart is
\* never replaced under an order the kitchen has or is being given.
RebuildOnlyBeforeSend ==
    [][\A r \in Requests :
        Saves(r) /\ kind[r] = "rebuild"
            => order.status \notin {"sending_to_iiko"} \cup KitchenStatuses]_vars

\* docs/CONVENTIONS.md, rule 10: a change of status records an event.
CancelledHasEvent == order.status = "cancelled" => "order.cancelled" \in logged
=============================================================================
