---------------------------- MODULE DialogSession ----------------------------
(***************************************************************************)
(* The dialog session of one guest: users.current_state with its version   *)
(* and pending order in Postgres, and their cache in Redis, which every    *)
(* handler reads first.                                                    *)
(*                                                                         *)
(* The handlers are one run of process_message (app/api/webhooks.py), the  *)
(* operator's takeover, release, pause and snooze (app/api/admin), the     *)
(* reminder of an unfinished draft (app/services/draft_recovery.py), and   *)
(* the closing of an order from the panel or by the automatic send.  Each  *)
(* is cut at its Redis calls and at its commits.  An UPDATE of the users   *)
(* row that waits for its commit makes other writers of the row wait       *)
(* ("locked").                                                             *)
(***************************************************************************)
EXTENDS Naturals

CONSTANTS
    Requests,     \* handler invocations: each runs one handler, once
    Orders,       \* the guest's orders
    NoOrder,      \* no pending order
    NoRequest     \* nobody has the users row locked

ASSUME ConstantsAssumption ==
    /\ NoOrder \notin Orders
    /\ NoRequest \notin Requests

VARIABLES
    db,           \* the committed users row
    cache,        \* the keys user:state and user:pending_order
    orders,       \* the status of each order
    nudged,       \* orders whose draft_recovery key is set
    locked,       \* the request whose UPDATE of the users row is not committed
    job           \* each request: its handler, where it is, what it has read; of a
                  \* message also whether an operator had the guest ever since it came
                  \* (under), and whether Redis was right and nobody else has written
                  \* the row since the message looked at it (alone)

vars == <<db, cache, orders, nudged, locked, job>>

-----------------------------------------------------------------------------
(* States of a conversation (ConversationState). *)

States == {"chatting", "awaiting_order_payment", "confirming_order",
           "confirming_booking", "human_mode"}

Missing == "missing"

AllowedTransitions ==
    [s \in States |->
        CASE s = "chatting"               -> States
          [] s = "awaiting_order_payment" -> States \ {"confirming_booking"}
          [] s = "confirming_order"       -> States \ {"confirming_booking"}
          [] s = "confirming_booking"     -> {"confirming_booking", "chatting", "human_mode"}
          [] s = "human_mode"             -> {"human_mode", "chatting"}]

Operators == {"takeover", "release", "pause", "unpause", "forever", "snooze", "snooze_off"}

Kinds == {"message", "recovery", "cancel", "auto_send"} \cup Operators

\* Steps at which the bot, not the operator, is dealing with the message.
Bot == {"chatting", "awaiting_order_payment", "confirming_order", "confirming_booking",
        "sync", "synced", "write", "confirm", "llm", "route"}

Steps == {"idle", "refill", "preflight", "heed", "resume", "resumed", "store", "store_order",
          "clear", "clearing", "restore", "restore_state", "restoring",
          "admin", "close", "closing", "done"} \cup Bot

Replies == {"none", "sent", "dropped", "failed"}

NewJob == [kind |-> "message", at |-> "idle", state |-> "chatting", version |-> 0,
           pending |-> NoOrder, next |-> "chatting", mute |-> FALSE, then |-> "done",
           drops |-> {}, durable |-> FALSE, reply |-> "none",
           under |-> FALSE, alone |-> FALSE]

\* Any point of a conversation, with a draft if the guest is asked about one.
\* Redis has the state of the row, or the one before it (the last handler was
\* killed between its commit and its write to Redis), or nothing (24 hours).
Init ==
    /\ \E before \in States : \E s \in AllowedTransitions[before] :
        LET asking == s \in {"awaiting_order_payment", "confirming_order"} IN
        \E o \in IF asking THEN Orders ELSE {NoOrder} :
            /\ db = [state |-> s, version |-> 1, pending |-> o,
                     paused |-> FALSE, snoozed |-> FALSE]
            /\ orders = [x \in Orders |-> IF x = o THEN "draft" ELSE "absent"]
            /\ cache \in {[state |-> s, pending |-> o], [state |-> before, pending |-> NoOrder],
                          [state |-> Missing, pending |-> NoOrder]}
    /\ nudged = {}
    /\ locked = NoRequest
    /\ job = [r \in Requests |-> NewJob]

-----------------------------------------------------------------------------
(* Common parts. *)

Free(r) == locked \in {NoRequest, r}

\* Whether the guest is in the hands of an operator.
Served(row) == row.state = "human_mode" \/ row.paused \/ row.snoozed

At(r, s) == job[r].at = s

\* Request r becomes j, and nobody else's job changes.
Becomes(r, j) == job' = [job EXCEPT ![r] = j]

Move(r, s) == Becomes(r, [job[r] EXCEPT !.at = s])

\* The request is over and what it had read is forgotten.
Ended(j, answer) ==
    [NewJob EXCEPT !.at = "done", !.reply = answer, !.alone = j.alone /\ answer = "dropped"]

Finish(r, answer) == Becomes(r, Ended(job[r], answer))

\* A write of the row by r, seen from the others: "under" ends when the
\* operator gives the guest back, "alone" when anybody else writes.
WriteRow(r, row, j) ==
    /\ Free(r)
    /\ db' = row
    /\ job' = [q \in Requests |->
                 IF q = r THEN [j EXCEPT !.under = @ /\ Served(row)]
                 ELSE [job[q] EXCEPT !.under = @ /\ Served(row),
                                     !.alone = @ /\ row.version = db.version]]

Bump(row) == [row EXCEPT !.version = @ + 1]

Undo == locked' = NoRequest

-----------------------------------------------------------------------------
(* get_user_state: Redis, or on a miss the row, written back to Redis by a  *)
(* second step.                                                             *)

CachedState == IF cache.state = Missing THEN db.state ELSE cache.state

\* Where a handler goes once it knows the state.
FirstStep(k) == IF k = "message" THEN "preflight" ELSE "admin"

ReadState(r, k) ==
    /\ At(r, "idle")
    /\ k \in {"message"} \cup Operators
    /\ LET j == [job[r] EXCEPT !.kind = k, !.under = k = "message" /\ Served(db)]
       IN Becomes(r, IF cache.state = Missing
                     THEN [j EXCEPT !.at = "refill", !.state = db.state, !.pending = db.pending]
                     ELSE [j EXCEPT !.at = FirstStep(k), !.state = cache.state])
    /\ UNCHANGED <<db, cache, orders, nudged, locked>>

\* _db_recover_session
Refill(r) ==
    /\ At(r, "refill")
    /\ cache' = [state |-> job[r].state,
                 pending |-> IF job[r].pending # NoOrder THEN job[r].pending ELSE cache.pending]
    /\ Becomes(r, [job[r] EXCEPT !.at = FirstStep(job[r].kind), !.pending = NoOrder])
    /\ UNCHANGED <<db, orders, nudged, locked>>

-----------------------------------------------------------------------------
(* process_message: who answers, the bot or the operator. *)

\* Mutant of HumanInDb: only the cache is asked.
HumanInDbIgnored == FALSE

HumanInDb == db.state = "human_mode"

\* The first look at the row.  A human mode whose time is over takes the guest
\* back to the bot; one that Redis did not know of is first noted there.
Preflight(r) ==
    /\ At(r, "preflight")
    /\ LET muted == db.paused \/ db.snoozed
           j == [job[r] EXCEPT !.version = db.version, !.mute = muted,
                               !.alone = job[r].state = db.state]
       IN \/ /\ HumanInDb /\ ~db.paused
             /\ Becomes(r, [j EXCEPT !.at = "resume"])
          \/ /\ HumanInDb /\ job[r].state # "human_mode"
             /\ Becomes(r, [j EXCEPT !.at = "heed"])
          \/ /\ job[r].state = "human_mode" \/ (muted /\ ~HumanInDb)
             /\ Finish(r, "sent")
          \/ /\ ~HumanInDb /\ ~muted /\ job[r].state # "human_mode"
             /\ Becomes(r, [j EXCEPT !.at = job[r].state])
    /\ UNCHANGED <<db, cache, orders, nudged, locked>>

\* Redis is told of the operator; then a message that opens a new conversation
\* takes the guest back, and any other is over.
Heed(r) ==
    /\ At(r, "heed")
    /\ cache' = [cache EXCEPT !.state = "human_mode"]
    /\ \/ ~job[r].mute /\ Move(r, "resume")
       \/ Finish(r, "sent")
    /\ UNCHANGED <<db, orders, nudged, locked>>

Resume(r) ==
    /\ At(r, "resume")
    /\ WriteRow(r, [Bump(db) EXCEPT !.state = "chatting"],
                [job[r] EXCEPT !.at = "resumed", !.under = FALSE])
    /\ UNCHANGED <<cache, orders, nudged, locked>>

\* The version read before is forgotten: the route will not compare it.
Resumed(r) ==
    /\ At(r, "resumed")
    /\ cache' = [cache EXCEPT !.state = "chatting"]
    /\ Becomes(r, IF job[r].mute
                  THEN Ended(job[r], "sent")
                  ELSE [job[r] EXCEPT !.at = "chatting", !.state = "chatting", !.version = 0])
    /\ UNCHANGED <<db, orders, nudged, locked>>

-----------------------------------------------------------------------------
(* Answers to a question: how he pays, whether he confirms. *)

\* The pending order, from Redis or else from the row.
Pending == IF cache.pending # NoOrder THEN cache.pending ELSE db.pending

Recalled == cache' = [cache EXCEPT !.pending = Pending]

\* Clear the pending order in the row and in Redis, and cancel the orders
\* "drops" that are still drafts; then end, or go on to the model.
Clearing(j, drops, then) ==
    [j EXCEPT !.at = "clear", !.drops = drops, !.durable = TRUE, !.then = then]

\* handle_order_payment_choice.  A method is written into the draft (which
\* OrderLifecycle models) and the question becomes "do you confirm?", unless
\* an address, a time or a prepayment is missing.
PaymentAnswer(r) ==
    /\ At(r, "awaiting_order_payment")
    /\ Recalled
    /\ LET j == [job[r] EXCEPT !.pending = Pending]
       IN \/ Pending = NoOrder /\ Becomes(r, Clearing(j, {}, "done"))
          \/ Pending # NoOrder /\ Becomes(r, Clearing(j, {Pending}, "done"))
          \/ Pending # NoOrder /\ Becomes(r, [j EXCEPT !.at = "sync", !.next = "chatting"])
          \/ /\ Pending # NoOrder /\ orders[Pending] # "draft"
             /\ Becomes(r, Clearing(j, {}, "done"))
          \/ /\ Pending # NoOrder /\ orders[Pending] = "draft"
             /\ \E n \in {"chatting", "confirming_order"} :
                    Becomes(r, IF n \in AllowedTransitions[CachedState]
                               THEN [j EXCEPT !.at = "write", !.next = n]
                               ELSE Ended(j, "failed"))
    /\ UNCHANGED <<db, orders, nudged, locked>>

\* handle_confirmation: "Да" with everything in place, with something missing
\* (back to the bot) or unpaid (asked again); "Нет"; anything else.
ConfirmationAnswer(r) ==
    /\ At(r, "confirming_order")
    /\ Recalled
    /\ LET j == [job[r] EXCEPT !.pending = Pending]
       IN \/ Pending = NoOrder /\ Becomes(r, Clearing(j, {}, "done"))
          \/ Pending # NoOrder /\ Becomes(r, [j EXCEPT !.at = "confirm"])
          \/ Pending # NoOrder /\ Becomes(r, [j EXCEPT !.at = "write", !.next = "chatting"])
          \/ Pending # NoOrder /\ Finish(r, "sent")
          \/ Pending # NoOrder /\ Becomes(r, Clearing(j, {Pending}, "done"))
          \/ Pending # NoOrder /\ Becomes(r, [j EXCEPT !.at = "sync", !.next = "chatting"])
    /\ UNCHANGED <<db, orders, nudged, locked>>

\* confirm_order and its commit; the pending order is cleared by a second
\* transaction, whether the order was found or not.
ConfirmPending(r) ==
    /\ At(r, "confirm")
    /\ LET o == job[r].pending
       IN orders' = IF orders[o] = "draft" THEN [orders EXCEPT ![o] = "confirmed"] ELSE orders
    /\ Becomes(r, Clearing(job[r], {}, "done"))
    /\ UNCHANGED <<db, cache, nudged, locked>>

\* apply_user_state_transition_in_db and the commit, for an answer that ends
\* with a reply ("write") and for one that goes on to the model ("sync").
WriteState(r) ==
    /\ job[r].at \in {"write", "sync"}
    /\ WriteRow(r, [Bump(db) EXCEPT !.state = job[r].next],
                [job[r] EXCEPT !.at = IF @ = "write" THEN "store" ELSE "synced",
                               !.pending = NoOrder])
    /\ UNCHANGED <<cache, orders, nudged, locked>>

\* set_user_state after the commit of "sync".
Synced(r) ==
    /\ At(r, "synced")
    /\ cache' = [cache EXCEPT !.state = job[r].next]
    /\ Becomes(r, [job[r] EXCEPT !.at = "chatting", !.state = "chatting"])
    /\ UNCHANGED <<db, orders, nudged, locked>>

\* handle_booking_confirmation: any answer but a third word ends the question,
\* in Redis only (clear_pending_booking).
BookingAnswer(r) ==
    /\ At(r, "confirming_booking")
    /\ \E understood \in BOOLEAN :
           cache' = IF understood THEN [cache EXCEPT !.state = "chatting"] ELSE cache
    /\ Finish(r, "sent")
    /\ UNCHANGED <<db, orders, nudged, locked>>

-----------------------------------------------------------------------------
(* clear_pending_order_durable, and clear_pending_order without the row. *)

\* The UPDATE, not committed, then DEL and get_user_state, which on a miss
\* brings the pending order back from the committed row.
Clear(r) ==
    /\ At(r, "clear")
    /\ job[r].durable => Free(r)
    /\ locked' = IF job[r].durable THEN r ELSE locked
    /\ cache' = IF cache.state = Missing
                THEN [state |-> db.state, pending |-> db.pending]
                ELSE [cache EXCEPT !.pending = NoOrder]
    /\ Becomes(r, [job[r] EXCEPT !.at = "clearing", !.state = CachedState])
    /\ UNCHANGED <<db, orders, nudged>>

\* A state other than human mode is reset, in Redis only.
Cleared(r) ==
    IF job[r].state = "human_mode" THEN cache ELSE [cache EXCEPT !.state = "chatting"]

\* SET in Redis, then the commit.
ClearCommit(r) ==
    /\ At(r, "clearing")
    /\ cache' = Cleared(r)
    /\ LET j == IF job[r].then = "done" THEN Ended(job[r], "sent")
                ELSE [job[r] EXCEPT !.at = job[r].then, !.state = "chatting"]
       IN IF job[r].durable
          THEN /\ WriteRow(r, [Bump(db) EXCEPT !.pending = NoOrder], j)
               /\ orders' = [o \in Orders |->
                    IF o \in job[r].drops /\ orders[o] = "draft" THEN "cancelled" ELSE orders[o]]
               /\ Undo
          ELSE Becomes(r, j) /\ UNCHANGED <<db, orders, locked>>
    /\ UNCHANGED nudged

-----------------------------------------------------------------------------
(* Free talk: fixed answers, or the language model. *)

Drafts == {o \in Orders : orders[o] = "draft"}

\* A stale cart is dropped and the message goes on; "cancel everything" and a
\* quick reply end it, one of them handing over to the operator in Redis
\* only; anything else is for the model.
Talk(r) ==
    /\ At(r, "chatting")
    /\ \/ Drafts # {} /\ Becomes(r, Clearing(job[r], Orders, "llm")) /\ UNCHANGED cache
       \/ Becomes(r, Clearing(job[r], Orders, "done")) /\ UNCHANGED cache
       \/ Finish(r, "sent") /\ cache' \in {cache, [cache EXCEPT !.state = "human_mode"]}
       \/ Move(r, "llm") /\ UNCHANGED cache
    /\ UNCHANGED <<db, orders, nudged, locked>>

Current(r) ==
    /\ db.state = job[r].state
    /\ job[r].version \in {0, db.version}

\* The model has answered.  A session that has moved makes the answer stale:
\* the message ends without a reply.
Answer(r) ==
    /\ At(r, "llm")
    /\ IF Current(r) THEN Move(r, "route") ELSE Finish(r, "dropped")
    /\ UNCHANGED <<db, cache, orders, nudged, locked>>

\* What an intent leaves: the next state and the pending order.
Intents ==
    [state : {"none", "chatting", "confirming_booking", "human_mode"}, pending : {NoOrder}]
    \cup [state : {"chatting", "awaiting_order_payment", "confirming_order"}, pending : Orders]

\* Mutant of RouteApplies: the UPDATE has no condition.
RouteAppliesAlways(r) == TRUE

\* The WHERE clause of the session's UPDATE.
RouteApplies(r) == Current(r)

\* route_intent, the UPDATE of the session and the commit.  The order is
\* written and the reply sent whether or not the UPDATE finds its row.
Route(r) ==
    /\ At(r, "route")
    /\ Free(r)
    /\ \E i \in Intents :
        LET o == i.pending
            j == [job[r] EXCEPT !.at = "store", !.next = i.state, !.pending = o]
        IN /\ o # NoOrder =>
                \/ orders[o] = "draft"
                \/ orders[o] = "absent" /\ Drafts = {}
           /\ orders' = IF o = NoOrder THEN orders ELSE [orders EXCEPT ![o] = "draft"]
           /\ IF i.state # "none" /\ RouteApplies(r)
              THEN WriteRow(r, [Bump(db) EXCEPT !.state = i.state,
                                   !.pending = IF o = NoOrder THEN @ ELSE o], j)
              ELSE Finish(r, "sent") /\ UNCHANGED db
    /\ UNCHANGED <<cache, nudged, locked>>

\* The cache follows the commit, of a route, of an answer or of an operator:
\* the state, and after it the pending order of a route.
StoreState(r) ==
    /\ At(r, "store")
    /\ cache' = [cache EXCEPT !.state = job[r].next]
    /\ IF job[r].pending = NoOrder THEN Finish(r, "sent") ELSE Move(r, "store_order")
    /\ UNCHANGED <<db, orders, nudged, locked>>

StorePending(r) ==
    /\ At(r, "store_order")
    /\ cache' = [cache EXCEPT !.pending = job[r].pending]
    /\ Finish(r, "sent")
    /\ UNCHANGED <<db, orders, nudged, locked>>

-----------------------------------------------------------------------------
(* The panel. *)

\* What each button writes into the row.
Ordered(k, row) ==
    CASE k = "takeover"   -> [Bump(row) EXCEPT !.state = "human_mode"]
      [] k = "release"    -> [Bump(row) EXCEPT !.state = "chatting"]
      [] k = "pause"      -> [Bump(row) EXCEPT !.state = "human_mode", !.paused = TRUE]
      [] k = "forever"    -> [Bump(row) EXCEPT !.state = "human_mode", !.paused = TRUE,
                                               !.snoozed = FALSE]
      [] k = "unpause"    -> [Bump(row) EXCEPT !.state = "chatting", !.paused = FALSE]
      [] k = "snooze"     -> [Bump(row) EXCEPT !.state = "chatting", !.paused = FALSE,
                                               !.snoozed = TRUE]
      [] k = "snooze_off" -> [row EXCEPT !.snoozed = FALSE]

\* Every transition an operator asks for is allowed from every state.
Operate(r) ==
    /\ At(r, "admin")
    /\ LET row == Ordered(job[r].kind, db)
       IN WriteRow(r, row, IF job[r].kind = "snooze_off" THEN Ended(job[r], "none")
                           ELSE [job[r] EXCEPT !.at = "store", !.next = row.state])
    /\ UNCHANGED <<cache, orders, nudged, locked>>

\* The time of a snooze is over; the next message clears the column.
SnoozeEnds ==
    /\ db.snoozed
    /\ db' = [db EXCEPT !.snoozed = FALSE]
    /\ job' = [q \in Requests |-> [job[q] EXCEPT !.under = @ /\ Served(db')]]
    /\ UNCHANGED <<cache, orders, nudged, locked>>

\* The automatic send confirms a draft and commits; a cancellation in bulk
\* picks an order and commits last.
CloseOrder(r, k) ==
    /\ At(r, "idle")
    /\ \E o \in Orders :
        /\ \/ k = "auto_send" /\ orders[o] = "draft"
              /\ orders' = [orders EXCEPT ![o] = "confirmed"]
           \/ k = "cancel" /\ orders[o] \notin {"absent", "cancelled"}
              /\ UNCHANGED orders
        /\ Becomes(r, [job[r] EXCEPT !.kind = k, !.at = "close", !.pending = o])
    /\ UNCHANGED <<db, cache, nudged, locked>>

\* clear_pending_order at once, or _clear_redis_pending_if_matches.
Unpend(r) ==
    /\ At(r, "close")
    /\ \/ /\ job[r].kind = "auto_send"
          /\ Move(r, "clear")
          /\ UNCHANGED cache
       \/ /\ job[r].kind = "cancel"
          /\ Recalled
          /\ Becomes(r, [job[r] EXCEPT !.then = "closing",
                           !.at = IF Pending = job[r].pending THEN "clear" ELSE "closing"])
    /\ UNCHANGED <<db, orders, nudged, locked>>

CancelCommit(r) ==
    /\ At(r, "closing")
    /\ orders' = [orders EXCEPT ![job[r].pending] = "cancelled"]
    /\ Finish(r, "none")
    /\ UNCHANGED <<db, cache, nudged, locked>>

-----------------------------------------------------------------------------
(* The reminder of an unfinished draft. *)

\* The drafts and the guests' states are read at once; one per order and day.
FindDraft(r) ==
    /\ At(r, "idle")
    /\ db.state # "human_mode"
    /\ \E o \in Drafts \ nudged :
        /\ nudged' = nudged \cup {o}
        /\ Becomes(r, [job[r] EXCEPT !.kind = "recovery", !.at = "restore", !.pending = o])
    /\ UNCHANGED <<db, cache, orders, locked>>

\* _restore_confirming_state: the UPDATE, not committed, and the pending order
\* in Redis, then the state in Redis.
RestorePending(r) ==
    /\ At(r, "restore")
    /\ Free(r)
    /\ locked' = r
    /\ cache' = [cache EXCEPT !.pending = job[r].pending]
    /\ Move(r, "restore_state")
    /\ UNCHANGED <<db, orders, nudged>>

RestoreState(r) ==
    /\ At(r, "restore_state")
    /\ cache' = [cache EXCEPT !.state = "confirming_order"]
    /\ Move(r, "restoring")
    /\ UNCHANGED <<db, orders, nudged, locked>>

\* The text is sent, or it is not and the key is deleted.  The tick commits the
\* UPDATEs of all its guests together, if the text of any of them was sent.
Reminded(r) ==
    /\ At(r, "restoring")
    /\ \E sent, commits \in BOOLEAN :
        /\ sent => commits
        /\ nudged' = IF sent THEN nudged ELSE nudged \ {job[r].pending}
        /\ LET answer == IF sent THEN "none" ELSE "failed"
           IN IF commits
              THEN WriteRow(r, [Bump(db) EXCEPT !.state = "confirming_order",
                                                !.pending = job[r].pending],
                            Ended(job[r], answer))
              ELSE Finish(r, answer) /\ UNCHANGED db
    /\ Undo
    /\ UNCHANGED <<cache, orders>>

-----------------------------------------------------------------------------
(* Faults. *)

\* The keys expire, Redis restarts empty, or the phone's keys are purged.
Expire ==
    /\ cache # [state |-> Missing, pending |-> NoOrder]
    /\ cache' = [state |-> Missing, pending |-> NoOrder]
    /\ UNCHANGED <<db, orders, nudged, locked, job>>

\* The process dies; what it has not committed is rolled back.
Crash(r) ==
    /\ job[r].at \notin {"idle", "done"}
    /\ Finish(r, "failed")
    /\ locked' = IF locked = r THEN NoRequest ELSE locked
    /\ UNCHANGED <<db, cache, orders, nudged>>

-----------------------------------------------------------------------------

Message(r) ==
    \/ Preflight(r) \/ Heed(r) \/ Resume(r) \/ Resumed(r)
    \/ PaymentAnswer(r) \/ ConfirmationAnswer(r) \/ ConfirmPending(r) \/ BookingAnswer(r)
    \/ WriteState(r) \/ Synced(r) \/ Talk(r) \/ Answer(r) \/ Route(r)

Next ==
    \/ \E r \in Requests :
        \/ \E k \in Kinds : ReadState(r, k) \/ CloseOrder(r, k)
        \/ Refill(r) \/ Message(r) \/ Clear(r) \/ ClearCommit(r)
        \/ StoreState(r) \/ StorePending(r)
        \/ Operate(r) \/ Unpend(r) \/ CancelCommit(r)
        \/ FindDraft(r) \/ RestorePending(r) \/ RestoreState(r) \/ Reminded(r) \/ Crash(r)
    \/ SnoozeEnds
    \/ Expire

Spec == Init /\ [][Next]_vars
-----------------------------------------------------------------------------
(* Properties. *)

\* The row, its cache and the jobs hold only states and steps the code knows.
TypeOK ==
    /\ db \in [state : States, version : Nat, pending : Orders \cup {NoOrder},
               paused : BOOLEAN, snoozed : BOOLEAN]
    /\ cache \in [state : States \cup {Missing}, pending : Orders \cup {NoOrder}]
    /\ orders \in [Orders -> {"absent", "draft", "confirmed", "cancelled"}]
    /\ nudged \subseteq Orders
    /\ locked \in Requests \cup {NoRequest}
    /\ job \in [Requests ->
         [kind : Kinds, at : Steps, state : States, version : Nat,
          pending : Orders \cup {NoOrder}, next : States, mute : BOOLEAN,
          then : {"done", "llm", "closing"}, drops : SUBSET Orders, durable : BOOLEAN,
          reply : Replies, under : BOOLEAN, alone : BOOLEAN]]

\* The bot stays silent while an operator has the guest: a message that
\* arrives after a takeover, a pause or a snooze is committed, and before the
\* guest is given back, is answered by neither a question's handler nor the
\* model, whatever Redis says at that time.
BotYieldsToOperator ==
    \A r \in Requests : job[r].kind = "message" /\ job[r].under => job[r].at \notin Bot

\* What the model decided is written only into the session it decided for: a
\* takeover, another message or a reminder that got in since the message read
\* its version is never overwritten by the route.
RouteFindsItsSession ==
    [][\A r \in Requests :
        job[r].at = "route" /\ job'[r].at = "store"
            => db.state = job[r].state /\ (job[r].version # 0 => job[r].alone)]_vars

-----------------------------------------------------------------------------
(* What the code's own comments say and the code does not do. *)

\* process_message: an answer that is neither yes nor no is passed on to the
\* model.  So no message is dropped as stale when nobody else has written the
\* session since it was read.
EveryMessageAnswered ==
    \A r \in Requests : job[r].reply = "dropped" => ~job[r].alone
=============================================================================
