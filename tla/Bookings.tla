------------------------------ MODULE Bookings ------------------------------
(***************************************************************************)
(* Bookings of tables, for one slot (one date and time) of one restaurant. *)
(*                                                                         *)
(* A guest books a table, alone or together with an order, is asked for a  *)
(* yes or a no, and the staff change any booking and any order from the    *)
(* panel.  There is one VIP table per slot and nothing unique in the       *)
(* database: every handler asks whether the slot is taken and writes       *)
(* later, in a transaction of its own that sees what others committed.     *)
(*                                                                         *)
(* A guest's messages are handled one at a time, which is what the lock of *)
(* ChatSerializer is for; the staff's requests and the payment's automatic *)
(* send run beside them.  One order per guest: a guest who orders again is *)
(* another guest of the model.  A row is written by its primary key when   *)
(* the transaction commits, whatever it has become since it was read; the  *)
(* row of an order that is being cancelled is locked before the booking is *)
(* read, because the session flushes the order first.                      *)
(*                                                                         *)
(* That a guest is asked about a booking is written twice: in the row of   *)
(* users, with the booking, and after that commit in Redis.  Messages go   *)
(* by Redis, and by the row when Redis has forgotten.  The operator and    *)
(* the timers of the dialog write both without a look at the booking.      *)
(***************************************************************************)
EXTENDS Naturals

CONSTANTS
    Guests,     \* guests, each with the one handler of its chat
    Buyers,     \* the guests who order as well
    Staff,      \* requests of the panel, and the send after a payment
    Bookings,   \* rows of bookings that can be inserted
    MaxOutside, \* bound on what comes from outside the guests' chats
    None        \* no booking

ASSUME HandlersAssumption == Buyers \subseteq Guests /\ Guests \cap Staff = {}
ASSUME BoundAssumption == MaxOutside \in Nat
ASSUME NoneAssumption == None \notin Bookings

VARIABLES
    booking,    \* rows of bookings
    order,      \* the order of each guest
    asked,      \* the row of users: the booking each guest is asked about
    waiting,    \* the same in Redis: the booking a yes or a no is taken for
    work,       \* what each handler is doing, in its open transaction
    marks,      \* what has happened to each booking
    outside     \* what the staff, payments and timers have begun so far

rows    == <<booking, order, asked, waiting>>
history == <<marks, outside>>
vars    == <<rows, work, history>>

\* staff: changed from the panel; revived: confirmed over a cancellation
\* committed meanwhile; unseen: put into an order while that was being
\* confirmed; left: a draft committed, or kept, with nobody to decide it;
\* moved: a draft whose guest's dialog went on to something else.
Marks == {"staff", "revived", "unseen", "left", "moved"}

Handlers      == Guests \cup Staff
Halls         == {"hall_1", "vip"}
Written       == {"draft", "pending", "confirmed", "cancelled"}
OrderStatuses == {"none", "draft", "confirmed", "cancelled", "deleted"}

AskKinds   == {"book", "preorder"}
GuestKinds == {"confirm_booking", "cancel_booking", "cancel_order"}
PanelKinds == {"revert", "cancel", "delete"}
Kinds      == AskKinds \cup GuestKinds \cup PanelKinds \cup {"confirm_order", "patch", "idle"}

NoOrder == [status |-> "none", booking |-> None]

\* The row is gone for good: a later order of the guest is another row.
DeletedOrder == [NoOrder EXCEPT !.status = "deleted"]

\* guest, b: whose order and which booking it works on; hall, status: the
\* booking as the handler has it in memory; dirty: the columns it changed.
Idle == [kind |-> "idle", pc |-> "idle", guest |-> None, b |-> None,
         hall |-> "hall_1", status |-> "none", dirty |-> {}]

TypeOK ==
    /\ booking \in [Bookings -> [status : Written \cup {"none"}, hall : Halls]]
    /\ \A g \in Guests :
          /\ order[g].status \in OrderStatuses
          /\ order[g].booking = None \/ booking[order[g].booking].status # "none"
          /\ asked[g] = None \/ booking[asked[g]].status # "none"
          /\ waiting[g] = None \/ booking[waiting[g]].status # "none"
    /\ \A h \in Handlers :
          /\ work[h].kind \in Kinds
          /\ work[h].pc \in {"idle", "asked", "asking", "order", "booking", "held", "ready"}
          /\ work[h].guest \in Guests \cup {None}
          /\ work[h].b \in Bookings \cup {None}
          /\ work[h].dirty \subseteq {"hall", "status"}
          /\ work[h].kind = "idle" <=> work[h] = Idle
          /\ work[h].b # None => booking[work[h].b].status # "none"
    /\ marks \in [Bookings -> SUBSET Marks]
    /\ outside \in 0..MaxOutside

Init ==
    /\ booking = [b \in Bookings |-> [status |-> "none", hall |-> "hall_1"]]
    /\ order   = [g \in Guests |-> NoOrder]
    /\ asked   = [g \in Guests |-> None]
    /\ waiting = [g \in Guests |-> None]
    /\ work    = [h \in Handlers |-> Idle]
    /\ marks   = [b \in Bookings |-> {}]
    /\ outside = 0

-----------------------------------------------------------------------------
\* Bug: a draft does not take the slot before it is confirmed.
BlocksConfirmed(b) == booking[b].hall = "vip" /\ booking[b].status = "confirmed"

\* A booking of the VIP table that keeps others from it.
Blocks(b) == booking[b].hall = "vip" /\ booking[b].status \notin {"none", "cancelled"}

\* vip_slot_occupied, leaving out the bookings in except.
Occupied(except) == \E b \in Bookings \ except : Blocks(b)

\* There is a row of guest g's order: an UPDATE of no row is an error.
Stored(g) == order[g].status \notin {"none", "deleted"}

\* Another transaction has locked the row of guest g's order.
Locked(g) == \E h \in Handlers : work[h].pc = "held" /\ work[h].guest = g

\* The bookings of bs get a mark; one the staff changed needs no other.
Marked(why, bs) ==
    [b \in Bookings |-> IF b \notin bs \/ "staff" \in marks[b] THEN marks[b]
                        ELSE IF why = "staff" THEN {why} ELSE marks[b] \cup {why}]

Mark(why, bs) == marks' = Marked(why, bs) /\ UNCHANGED outside

\* Something comes from outside the guests' chats: from the panel, a payment, or
\* what moves a dialog.
Outside == outside < MaxOutside /\ outside' = outside + 1

Start(h, job) == work[h] = Idle /\ work' = [work EXCEPT ![h] = job]
Leave(h)      == work' = [work EXCEPT ![h] = Idle]

-----------------------------------------------------------------------------
\* A guest books, or orders for the hall ahead of time.

\* The guest's message is understood and the VIP table, if asked for, is
\* free.  A guest who is asked for a yes or a no is answered elsewhere, and
\* nothing comes of a message when the row and Redis disagree.
Ask(g, kind, hall) ==
    /\ waiting[g] = None /\ asked[g] = None
    /\ kind = "preorder" => g \in Buyers /\ order[g].status \in {"none", "draft"} /\ order[g].booking = None
    /\ hall = "vip" => ~Occupied({})
    /\ Start(g, [Idle EXCEPT !.kind = kind, !.pc = "asked", !.guest = g, !.hall = hall,
                             !.status = order[g].status])
    /\ UNCHANGED <<rows, history>>

\* Bug: the booking is put into the order whatever became of the order.
AttachesAlways(g) == Stored(g) \/ work[g].status = "none"

\* A new order, or a draft that is still one (and of the version read: if not,
\* the draft of the booking is committed all the same).
Attaches(g) == order[g].status = work[g].status

\* The draft is committed, and in the row of the guest that he is asked about
\* it.  It is left with nobody to decide it when the session moved on and does
\* not wait for the answer, when the payments do not add up, and when the
\* order it was meant for has changed meanwhile.
Insert(g) ==
    /\ work[g].pc = "asked" /\ ~Locked(g)
    /\ \E b \in Bookings, kept \in BOOLEAN :
          LET asks     == kept /\ work[g].kind = "book"
              attaches == kept /\ work[g].kind = "preorder"
          IN  /\ booking[b].status = "none"
              /\ booking' = [booking EXCEPT ![b] = [status |-> "draft", hall |-> work[g].hall]]
              /\ attaches => Attaches(g)
              /\ asked' = IF asks THEN [asked EXCEPT ![g] = b] ELSE asked
              /\ work' = [work EXCEPT ![g] =
                    IF asks THEN [Idle EXCEPT !.kind = "book", !.pc = "asking", !.guest = g, !.b = b]
                    ELSE Idle]
              /\ order' = IF attaches
                          THEN [order EXCEPT ![g].booking = b,
                                             ![g].status = IF @ = "none" THEN "draft" ELSE @]
                          ELSE order
              /\ Mark("left", IF kept THEN {} ELSE {b})
    /\ UNCHANGED waiting

\* set_user_state and set_pending_booking, after the commit.
AskGuest(g) ==
    /\ work[g].pc = "asking"
    /\ waiting' = [waiting EXCEPT ![g] = work[g].b]
    /\ Leave(g)
    /\ UNCHANGED <<booking, order, asked, history>>

\* An order without a booking; a later message may turn it into a preorder.
PlaceOrder(g) ==
    /\ g \in Buyers /\ work[g] = Idle /\ waiting[g] = None /\ asked[g] = None
    /\ order[g].status = "none"
    /\ order' = [order EXCEPT ![g].status = "draft"]
    /\ UNCHANGED <<booking, asked, waiting, work, history>>

-----------------------------------------------------------------------------
\* The dialog of a guest moves, whatever his handler is doing.

\* The row is given another state: an operator takes the chat over or releases
\* it, switches the AI off for a while, pauses the guest, or the pipeline or
\* the recovery of drafts does it by the clock.
RowMoves(g) ==
    /\ asked[g] # None
    /\ asked' = [asked EXCEPT ![g] = None]
    /\ marks' = Marked("moved", {b \in {asked[g]} : booking[b].status = "draft"})
    /\ Outside
    /\ UNCHANGED <<booking, order, waiting, work>>

\* Redis is given another state: by the same writers after their commit, or by
\* clear_pending_order alone when an order of the guest is closed in the panel
\* or paid; or it forgets what the row does not know.
CacheMoves(g) ==
    /\ waiting[g] # None
    /\ waiting' = [waiting EXCEPT ![g] = None]
    /\ marks' = Marked("moved", {b \in {waiting[g]} : booking[b].status = "draft"})
    /\ Outside
    /\ UNCHANGED <<booking, order, asked, work>>

\* _db_recover_session: Redis has forgotten, and is filled from the row.  A
\* decided booking that the row still names comes back too: its answer is
\* refused and changes nothing, and is left out.
Recover(g) ==
    /\ waiting[g] = None /\ asked[g] # None
    /\ booking[asked[g]].status = "draft"
    /\ waiting' = [waiting EXCEPT ![g] = asked[g]]
    /\ UNCHANGED <<booking, order, asked, work, history>>

-----------------------------------------------------------------------------
\* Answers, and the confirmation of an order by the staff or by a payment.

\* handle_booking_confirmation: yes or no to the booking that is waited for.
Answer(g, kind) ==
    /\ waiting[g] # None
    /\ Start(g, [Idle EXCEPT !.kind = kind, !.pc = "order", !.guest = g, !.b = waiting[g]])
    /\ UNCHANGED <<rows, history>>

\* confirm_order and cancel_order read the order and go on if it is a draft.
TakeOrder(h, g, kind) ==
    /\ order[g].status = "draft"
    /\ Start(h, [Idle EXCEPT !.kind = kind, !.pc = "order", !.guest = g, !.b = order[g].booking])
    /\ IF h \in Staff THEN Outside ELSE UNCHANGED outside
    /\ UNCHANGED <<rows, marks>>

\* clear_pending_booking: Redis forgets the question, and the row does not.  (A
\* process that dies before this leaves what Recover brings back.)
Forget(g) == waiting' = [waiting EXCEPT ![g] = None]

\* A refusal ends the handler; a guest asked about a booking is asked no more.
Refuse(h) ==
    LET answer == work[h].kind \in {"confirm_booking", "cancel_booking"}
    IN  /\ IF answer THEN Forget(work[h].guest) ELSE UNCHANGED waiting
        /\ Mark("left", IF answer /\ booking[work[h].b].status = "draft" THEN {work[h].b} ELSE {})
        /\ Leave(h)
        /\ UNCHANGED <<booking, order, asked>>

\* confirm_booking reads the booking, which must be a draft.
ReadBooking(h) ==
    /\ work[h].kind \in {"confirm_booking", "confirm_order", "cancel_booking"} /\ work[h].pc = "order"
    /\ IF work[h].b = None
       THEN /\ work' = [work EXCEPT ![h].pc = "ready"]
            /\ UNCHANGED <<rows, history>>
       ELSE IF booking[work[h].b].status # "draft" THEN Refuse(h)
       ELSE /\ work' = [work EXCEPT ![h].hall = IF work[h].kind = "cancel_booking"
                                                THEN @ ELSE booking[work[h].b].hall,
                                    ![h].pc = IF work[h].kind = "cancel_booking"
                                              THEN "ready" ELSE "booking"]
            /\ UNCHANGED <<rows, history>>

\* Nobody else has the VIP table, as the handler has the booking in memory.
Free(h) == work[h].hall = "vip" /\ work[h].status # "cancelled" => ~Occupied({work[h].b})

\* The second look at the slot, by confirm_booking and by patch_booking.
Check(h) ==
    /\ work[h].pc = "booking"
    /\ IF Free(h) THEN /\ work' = [work EXCEPT ![h].pc = "ready",
                                             ![h].hall = IF work[h].kind = "patch" THEN @ ELSE "hall_1"]
                       /\ UNCHANGED <<rows, history>>
                  ELSE Refuse(h)

\* Both rows are written as confirmed, whatever they have become.
Confirm(h) ==
    LET g == work[h].guest
        b == work[h].b
    IN  /\ work[h].kind \in {"confirm_booking", "confirm_order"} /\ work[h].pc = "ready"
        /\ booking' = IF b = None THEN booking ELSE [booking EXCEPT ![b].status = "confirmed"]
        /\ IF work[h].kind = "confirm_order"
           THEN /\ ~Locked(g) /\ Stored(g)
                /\ order' = [order EXCEPT ![g].status = "confirmed"]
                /\ UNCHANGED waiting
           ELSE Forget(g) /\ UNCHANGED order
        /\ IF b # None /\ booking[b].status = "cancelled" THEN Mark("revived", {b})
           ELSE Mark("unseen", IF work[h].kind = "confirm_order"
                               THEN {order[g].booking} \ {b, None} ELSE {})
        /\ Leave(h)
        /\ UNCHANGED asked

\* cancel_booking for the guest's no.
CancelBooking(g) ==
    /\ work[g].kind = "cancel_booking" /\ work[g].pc = "ready"
    /\ booking' = [booking EXCEPT ![work[g].b].status = "cancelled"]
    /\ Forget(g)
    /\ Leave(g)
    /\ UNCHANGED <<order, asked, history>>

\* Bug: the order is written after the booking, and is not locked before.
HoldsLate == "ready"

\* cancel_order sets the status of the order; reading the booking flushes it.
Holds == "held"

\* Bug: the booking of a cancelled order is left as it is.
CancelsBookingNever(b) == FALSE

\* cancel_booking cancels a draft and nothing else.
CancelsBooking(b) == b # None /\ booking[b].status = "draft"

\* The row of the order is locked, then the booking is read.
Hold(g) ==
    /\ work[g].kind = "cancel_order" /\ work[g].pc = "order"
    /\ Stored(g)
    /\ work' = [work EXCEPT ![g].pc = Holds,
                            ![g].status = IF CancelsBooking(work[g].b) THEN "draft" ELSE "none"]
    /\ UNCHANGED <<rows, history>>

\* The order is cancelled, and its booking if it was read as a draft.
CancelOrder(g) ==
    /\ work[g].kind = "cancel_order" /\ work[g].pc \in {"held", "ready"}
    /\ order' = [order EXCEPT ![g].status = "cancelled"]
    /\ booking' = IF work[g].status = "draft"
                  THEN [booking EXCEPT ![work[g].b].status = "cancelled"] ELSE booking
    /\ Leave(g)
    /\ UNCHANGED <<asked, waiting, history>>

-----------------------------------------------------------------------------
\* The panel.

\* patch_booking reads a row and sets the hall, the status, or both.
Patch(s, b, hall, status) ==
    LET dirty == {c \in {"hall"} : hall # booking[b].hall}
                    \cup {c \in {"status"} : status # booking[b].status}
    IN  /\ booking[b].status # "none" /\ dirty # {}
        /\ Start(s, [Idle EXCEPT !.kind = "patch", !.pc = "booking", !.b = b,
                                 !.hall = hall, !.status = status, !.dirty = dirty])
        /\ Outside
        /\ UNCHANGED <<rows, marks>>

\* The changed columns are written.
SavePatch(s) ==
    LET b == work[s].b
    IN  /\ work[s].kind = "patch" /\ work[s].pc = "ready"
        /\ booking' = [booking EXCEPT
              ![b].hall   = IF "hall" \in work[s].dirty THEN work[s].hall ELSE @,
              ![b].status = IF "status" \in work[s].dirty THEN work[s].status ELSE @]
        /\ Mark("staff", {b})
        /\ Leave(s)
        /\ UNCHANGED <<order, asked, waiting>>

\* An order is taken back, cancelled or deleted; its booking is not touched.
OpenOrder(s, g, kind) ==
    /\ Stored(g) /\ order[g].status # "cancelled"
    /\ kind = "revert" => order[g].status = "confirmed"
    /\ Start(s, [Idle EXCEPT !.kind = kind, !.pc = "ready", !.guest = g])
    /\ Outside
    /\ UNCHANGED <<rows, marks>>

\* Bug: misspelt.
PanelStatusMisspelt(kind) == IF kind = "revert" THEN "draft" ELSE "canceled"

\* The status an operation of the panel writes.
PanelStatus(kind) == IF kind = "revert" THEN "draft" ELSE "cancelled"

SaveOrder(s) ==
    LET g == work[s].guest
    IN  /\ work[s].kind \in PanelKinds /\ ~Locked(g) /\ Stored(g)
        /\ order' = [order EXCEPT ![g] = IF work[s].kind = "delete" THEN DeletedOrder
                                         ELSE [@ EXCEPT !.status = PanelStatus(work[s].kind)]]
        /\ Mark("left", IF work[s].kind = "revert" THEN {} ELSE {order[g].booking} \ {None})
        /\ Leave(s)
        /\ UNCHANGED <<booking, asked, waiting>>

\* A transaction fails or its process dies: nothing was written, but for a
\* draft whose guest has not been asked in Redis yet.
Abort(h) ==
    /\ work[h] # Idle
    /\ Mark("moved", IF work[h].pc = "asking" THEN {work[h].b} \ {waiting[h]} ELSE {})
    /\ Leave(h)
    /\ UNCHANGED rows

Next ==
    \/ \E g \in Guests :
          \/ \E kind \in AskKinds, hall \in Halls : Ask(g, kind, hall)
          \/ Insert(g) \/ AskGuest(g)
          \/ PlaceOrder(g)
          \/ RowMoves(g) \/ CacheMoves(g) \/ Recover(g)
          \/ \E kind \in {"confirm_booking", "cancel_booking"} : Answer(g, kind)
          \/ \E kind \in {"confirm_order", "cancel_order"} : TakeOrder(g, g, kind)
          \/ CancelBooking(g)
          \/ Hold(g)
          \/ CancelOrder(g)
    \/ \E s \in Staff :
          \/ \E g \in Guests : TakeOrder(s, g, "confirm_order")
          \/ \E b \in Bookings, hall \in Halls, status \in Written : Patch(s, b, hall, status)
          \/ SavePatch(s)
          \/ \E g \in Guests, kind \in PanelKinds : OpenOrder(s, g, kind)
          \/ SaveOrder(s)
    \/ \E h \in Handlers : ReadBooking(h) \/ Check(h) \/ Confirm(h) \/ Abort(h)

Spec == Init /\ [][Next]_vars

-----------------------------------------------------------------------------
\* Two confirmed bookings of the VIP table: the staff changed one of them, or
\* one was confirmed over a cancellation.  Guests alone never share it, though
\* vip_slot_occupied and the insertion are two steps: each draft is committed
\* before its confirmation looks at the slot.
SharedNeedsCause ==
    \A b, c \in Bookings :
        /\ b # c
        /\ booking[b] = [status |-> "confirmed", hall |-> "vip"]
        /\ booking[c] = [status |-> "confirmed", hall |-> "vip"]
        => (marks[b] \cup marks[c]) \cap {"staff", "revived"} # {}

\* A confirmed order has a confirmed booking, unless the staff changed the
\* booking or it was put into the order while the order was being confirmed
\* (confirm_order writes the status alone and does not look at the version).
OrderHasBooking ==
    \A g \in Guests :
        LET b == order[g].booking
        IN  order[g].status = "confirmed" /\ b # None /\ marks[b] \cap {"staff", "unseen"} = {}
            => booking[b].status = "confirmed"

\* A draft keeps the VIP table from everybody.  Its guest's yes or no reaches
\* it (Redis waits for it, and the row of users does not say that an operator
\* has the chat), or he is about to be asked, or it goes with an order that is
\* a draft itself, which the guest and the panel can decide.  What takes a
\* draft away from all of these has a name: the staff changed it, it was put
\* into an order being confirmed, it was committed or refused with the
\* question gone, or the dialog of its guest was moved before he answered, in
\* the row or in Redis.
DraftHasDecider ==
    \A b \in Bookings : booking[b].status = "draft" =>
        \/ marks[b] \cap {"staff", "unseen", "left", "moved"} # {}
        \/ \E g \in Guests : /\ asked[g] = b
                             /\ waiting[g] = b \/ (work[g].pc = "asking" /\ work[g].b = b)
        \/ \E g \in Guests : order[g] = [status |-> "draft", booking |-> b]

\* A booking confirmed by its guest or with its order is changed by the
\* staff's patch of it and by nothing else: a cancellation of the order that
\* runs against a confirmation of it does not cancel a booking that was
\* reported as confirmed.  (One the staff confirmed may be cancelled by a guest
\* whose no was on its way: the write does not look at the row again.)
ConfirmedStays ==
    [][\A b \in Bookings :
          /\ booking[b].status = "confirmed" /\ "staff" \notin marks[b]
          /\ booking'[b].status # "confirmed"
          => \E s \in Staff : work[s].kind = "patch" /\ work[s].b = b /\ work'[s] = Idle]_vars
=============================================================================
