----------------------------- MODULE BookingsProofs -----------------------------
(***************************************************************************)
(* Theorems about Bookings, for any guests, any members of staff and any   *)
(* number of bookings and of changes from outside the chats.               *)
(***************************************************************************)
EXTENDS Bookings, TLAPS

USE HandlersAssumption, BoundAssumption, NoneAssumption

-----------------------------------------------------------------------------
(* Types *)

Working ==
    [kind : Kinds, pc : {"idle", "asked", "asking", "order", "booking", "held", "ready"},
     guest : Guests \cup {None}, b : Bookings \cup {None}, hall : Halls,
     status : Written \cup {"none", "deleted"}, dirty : SUBSET {"hall", "status"}]

Confirming == {"confirm_booking", "confirm_order"}

\* What handler h is sure of when it is doing w.
Fits(h, w) ==
    /\ w.kind = "idle" => w = Idle
    /\ w.pc = "asked" => w.kind \in AskKinds
    /\ w.pc = "held" => w.kind = "cancel_order"
    /\ w.pc = "booking" => w.kind \in Confirming \cup {"patch"} /\ w.b # None
    /\ w.pc = "asking" => w.kind = "book" /\ w.b # None
    /\ w.kind \in AskKinds => h \in Guests /\ w.guest = h /\ w.pc \in {"asked", "asking"}
    /\ w.kind = "preorder" => w.pc = "asked" /\ w.status \in {"none", "draft"}
    /\ w.kind \in {"confirm_booking", "cancel_booking"} => h \in Guests /\ w.guest = h /\ w.b # None
    /\ w.kind \in Confirming => w.guest \in Guests /\ w.status = "none"
    /\ w.kind = "cancel_order" =>
          /\ h \in Guests /\ w.guest = h /\ w.pc \in {"order", "held"}
          /\ w.status \in {"none", "draft"} /\ (w.status = "draft" => w.b # None)
    /\ w.kind = "patch" => w.b # None /\ w.status \in Written
    /\ w.kind \in PanelKinds => w.guest \in Guests /\ h \in Staff

Made(b) == booking[b].status # "none"

\* Only rows that have been inserted are spoken of.
Referenced ==
    /\ \A g \in Guests : /\ order[g].booking # None => Made(order[g].booking)
                         /\ asked[g] # None => Made(asked[g])
                         /\ waiting[g] # None => Made(waiting[g])
    /\ \A h \in Handlers : work[h].b # None => Made(work[h].b)

TypeInv ==
    /\ booking \in [Bookings -> [status : Written \cup {"none"}, hall : Halls]]
    /\ order \in [Guests -> [status : OrderStatuses, booking : Bookings \cup {None}]]
    /\ asked \in [Guests -> Bookings \cup {None}]
    /\ waiting \in [Guests -> Bookings \cup {None}]
    /\ work \in [Handlers -> Working]
    /\ marks \in [Bookings -> SUBSET Marks]
    /\ outside \in 0..MaxOutside
    /\ \A h \in Handlers : Fits(h, work[h])
    /\ Referenced

LEMMA TypeGivesTypeOK == TypeInv => TypeOK
<1> SUFFICES ASSUME TypeInv PROVE TypeOK
    OBVIOUS
<1>1. ASSUME NEW h \in Handlers
      PROVE  /\ work[h].kind \in Kinds
             /\ work[h].pc \in {"idle", "asked", "asking", "order", "booking", "held", "ready"}
             /\ work[h].guest \in Guests \cup {None}
             /\ work[h].b \in Bookings \cup {None}
             /\ work[h].dirty \subseteq {"hall", "status"}
             /\ work[h].kind = "idle" <=> work[h] = Idle
             /\ work[h].b # None => booking[work[h].b].status # "none"
    BY DEF TypeInv, Working, Fits, Idle, Referenced, Made
<1>2. ASSUME NEW g \in Guests
      PROVE  /\ order[g].status \in OrderStatuses
             /\ order[g].booking = None \/ booking[order[g].booking].status # "none"
             /\ asked[g] = None \/ booking[asked[g]].status # "none"
             /\ waiting[g] = None \/ booking[waiting[g]].status # "none"
    BY DEF TypeInv, Referenced, Made
<1> QED BY <1>1, <1>2 DEF TypeOK, TypeInv

LEMMA IdleFits == Idle \in Working /\ (\A h \in Handlers : Fits(h, Idle)) /\ Idle.b = None
BY DEF Idle, Working, Fits, Kinds, Halls, Written, AskKinds, GuestKinds, PanelKinds, Confirming

LEMMA TypeInit == Init => TypeInv
<1> SUFFICES ASSUME Init PROVE TypeInv
    OBVIOUS
<1>1. booking \in [Bookings -> [status : Written \cup {"none"}, hall : Halls]]
    BY DEF Init, Halls
<1>2. order \in [Guests -> [status : OrderStatuses, booking : Bookings \cup {None}]]
    BY DEF Init, NoOrder, OrderStatuses
<1>3. Referenced
    BY IdleFits DEF Init, Referenced, NoOrder
<1> QED BY <1>1, <1>2, <1>3, IdleFits DEF Init, TypeInv, Marks

\* The parts of a step: a handler moves, and what it writes.
Moves(h, w) == work' = [work EXCEPT ![h] = w]

StillMade(b) == booking'[b].status # "none"

RowsFit ==
    /\ booking' \in [Bookings -> [status : Written \cup {"none"}, hall : Halls]]
    /\ order' \in [Guests -> [status : OrderStatuses, booking : Bookings \cup {None}]]
    /\ asked' \in [Guests -> Bookings \cup {None}]
    /\ waiting' \in [Guests -> Bookings \cup {None}]
    /\ \A g \in Guests : /\ order'[g].booking # None => StillMade(order'[g].booking)
                         /\ asked'[g] # None => StillMade(asked'[g])
                         /\ waiting'[g] # None => StillMade(waiting'[g])
    /\ \A b \in Bookings : Made(b) => StillMade(b)

LEMMA TypeStep ==
    ASSUME TypeInv, NEW h \in Handlers, NEW w \in Working, Moves(h, w), Fits(h, w),
           w.b # None => StillMade(w.b),
           RowsFit, marks' \in [Bookings -> SUBSET Marks], outside' \in 0..MaxOutside
    PROVE  TypeInv'
<1>1. work' \in [Handlers -> Working] /\ \A q \in Handlers : work'[q] = IF q = h THEN w ELSE work[q]
    BY DEF TypeInv, Moves
<1>2. \A q \in Handlers : Fits(q, work'[q])
    BY <1>1 DEF TypeInv
<1>3. ASSUME NEW q \in Handlers, work'[q].b # None PROVE StillMade(work'[q].b)
    <2>1. CASE q = h
        BY <1>1, <1>3, <2>1
    <2>2. CASE q # h
        BY <1>1, <1>3, <2>2 DEF TypeInv, Working, Referenced, RowsFit
    <2> QED BY <2>1, <2>2
<1>4. Referenced'
    BY <1>3 DEF Referenced, RowsFit, Made, StillMade
<1>5. \A q \in Handlers : Fits(q, work[q])'
    BY <1>2 DEF Fits
<1> QED BY <1>1, <1>4, <1>5 DEF TypeInv, RowsFit

LEMMA SameRows == ASSUME TypeInv, UNCHANGED rows PROVE RowsFit
BY DEF TypeInv, Referenced, Made, StillMade, RowsFit, rows

LEMMA MarkFits ==
    ASSUME TypeInv, NEW why \in Marks, NEW bs, Mark(why, bs) \/ (marks' = Marked(why, bs) /\ Outside)
    PROVE  marks' \in [Bookings -> SUBSET Marks] /\ outside' \in 0..MaxOutside
BY DEF TypeInv, Mark, Marked, Outside

LEMMA LeaveFits ==
    ASSUME TypeInv, NEW h \in Handlers, Leave(h), RowsFit, marks' \in [Bookings -> SUBSET Marks],
           outside' \in 0..MaxOutside
    PROVE  TypeInv'
BY IdleFits, TypeStep DEF Leave, Moves

\* Steps that write only to the handler's memory.
LEMMA MemoryFits ==
    ASSUME TypeInv, NEW h \in Handlers, NEW w \in Working, Moves(h, w), Fits(h, w),
           w.b # None => Made(w.b), UNCHANGED <<rows, marks>>, outside' \in 0..MaxOutside
    PROVE  TypeInv'
<1>1. w.b # None => StillMade(w.b)
    BY DEF rows, Made, StillMade
<1> QED BY <1>1, SameRows, TypeStep DEF TypeInv

\* What a handler has in memory.
LEMMA HandlerFits ==
    ASSUME TypeInv, NEW h \in Handlers
    PROVE  work[h] \in Working /\ Fits(h, work[h]) /\ (work[h].b # None => Made(work[h].b))
           /\ outside \in 0..MaxOutside
BY DEF TypeInv, Referenced

LEMMA GuestsAndStaff == Guests \subseteq Handlers /\ Staff \subseteq Handlers
BY DEF Handlers

LEMMA TypeAsk ==
    ASSUME TypeInv, NEW g \in Guests, NEW kind \in AskKinds, NEW hall \in Halls, Ask(g, kind, hall)
    PROVE  TypeInv'
<1> DEFINE w == [Idle EXCEPT !.kind = kind, !.pc = "asked", !.guest = g, !.hall = hall,
                             !.status = order[g].status]
<1>1. order[g].status \in OrderStatuses /\ g \in Handlers
    BY GuestsAndStaff DEF TypeInv
<1>2. w \in Working /\ w.b = None
    BY <1>1, IdleFits DEF Working, OrderStatuses, Written, AskKinds, Kinds
<1>3. Fits(g, w)
    BY <1>1, IdleFits DEF Ask, Working, Fits, AskKinds, Confirming, PanelKinds
<1>4. Moves(g, w)
    BY DEF Ask, Start, Moves
<1> QED BY <1>1, <1>2, <1>3, <1>4, MemoryFits, HandlerFits DEF Ask, history

\* What an insertion does, told apart from what it leaves.
InsertsRow(g, b, kept) ==
    LET asks     == kept /\ work[g].kind = "book"
        attaches == kept /\ work[g].kind = "preorder"
    IN  /\ booking[b].status = "none"
        /\ booking' = [booking EXCEPT ![b] = [status |-> "draft", hall |-> work[g].hall]]
        /\ attaches => Attaches(g)
        /\ asked' = IF asks THEN [asked EXCEPT ![g] = b] ELSE asked
        /\ work' = [work EXCEPT ![g] =
              IF asks THEN [Idle EXCEPT !.kind = "book", !.pc = "asking", !.guest = g, !.b = b]
              ELSE Idle]
        /\ order' = IF attaches
                    THEN [order EXCEPT ![g].booking = b,
                                       ![g].status = IF @ = "none" THEN "draft" ELSE @]
                    ELSE order
        /\ Mark("left", IF kept THEN {} ELSE {b})

LEMMA InsertRow ==
    ASSUME NEW g \in Guests, Insert(g)
    PROVE  /\ \E b \in Bookings, kept \in BOOLEAN : InsertsRow(g, b, kept)
           /\ work[g].pc = "asked" /\ ~Locked(g) /\ UNCHANGED waiting
BY DEF Insert, InsertsRow

\* The handler that has committed a draft and is about to ask its guest.
Asker(g, b) == [Idle EXCEPT !.kind = "book", !.pc = "asking", !.guest = g, !.b = b]

LEMMA AskerFits ==
    ASSUME NEW g \in Guests, NEW b \in Bookings
    PROVE  /\ Asker(g, b) \in Working /\ Fits(g, Asker(g, b))
           /\ Asker(g, b).b = b /\ Asker(g, b).kind = "book" /\ Asker(g, b).pc = "asking"
<1>1. Asker(g, b).b = b /\ Asker(g, b).kind = "book" /\ Asker(g, b).pc = "asking"
    BY DEF Asker, Idle
<1>2. Asker(g, b) \in Working
    BY IdleFits DEF Asker, Working, Kinds, AskKinds
<1>3. Fits(g, Asker(g, b))
    BY DEF Asker, Idle, Fits, AskKinds, Confirming, PanelKinds
<1> QED BY <1>1, <1>2, <1>3

LEMMA TypeInsert ==
    ASSUME TypeInv, NEW g \in Guests, Insert(g)
    PROVE  TypeInv'
<1>1. PICK b \in Bookings, kept \in BOOLEAN : InsertsRow(g, b, kept)
    BY InsertRow
<1>2. g \in Handlers /\ work[g] \in Working /\ waiting' = waiting
    BY GuestsAndStaff, InsertRow DEF TypeInv
<1>3. booking' \in [Bookings -> [status : Written \cup {"none"}, hall : Halls]]
    BY <1>1, <1>2 DEF InsertsRow, TypeInv, Working, Written
<1>4. \A c \in Bookings : Made(c) => StillMade(c)
    BY <1>1 DEF InsertsRow, TypeInv, Made, StillMade
<1>5. StillMade(b)
    BY <1>1 DEF InsertsRow, TypeInv, StillMade
<1>6. asked' \in [Guests -> Bookings \cup {None}]
      /\ \A q \in Guests : asked'[q] = asked[q] \/ asked'[q] = b
    BY <1>1 DEF InsertsRow, TypeInv
<1>7. order' \in [Guests -> [status : OrderStatuses, booking : Bookings \cup {None}]]
      /\ \A q \in Guests : order'[q].booking = order[q].booking \/ order'[q].booking = b
    <2> DEFINE row == [order[g] EXCEPT !.booking = b, !.status = IF @ = "none" THEN "draft" ELSE @]
    <2>1. row \in [status : OrderStatuses, booking : Bookings \cup {None}] /\ row.booking = b
        BY DEF TypeInv, OrderStatuses
    <2>2. CASE order' = order
        BY <2>2 DEF TypeInv
    <2>3. CASE order' = [order EXCEPT ![g].booking = b, ![g].status = IF @ = "none" THEN "draft" ELSE @]
        <3>1. order' = [order EXCEPT ![g] = row]
            BY <2>3
        <3> HIDE DEF row
        <3> QED BY <2>1, <3>1 DEF TypeInv
    <2> QED BY <1>1, <2>2, <2>3 DEF InsertsRow
<1>8. RowsFit
    BY <1>2, <1>3, <1>4, <1>5, <1>6, <1>7 DEF RowsFit, TypeInv, Referenced
<1>9. marks' \in [Bookings -> SUBSET Marks] /\ outside' \in 0..MaxOutside
    BY <1>1, MarkFits DEF InsertsRow, Marks
<1>10. Moves(g, Idle) \/ Moves(g, Asker(g, b))
    BY <1>1 DEF InsertsRow, Moves, Asker
<1> QED BY <1>2, <1>5, <1>8, <1>9, <1>10, IdleFits, AskerFits, TypeStep

\* The question is written to Redis, and the dialog moves.
LEMMA TypeDialog ==
    ASSUME TypeInv, NEW g \in Guests, AskGuest(g) \/ RowMoves(g) \/ CacheMoves(g) \/ Recover(g)
    PROVE  TypeInv'
<1>0. g \in Handlers /\ work[g] \in Working /\ Fits(g, work[g]) /\ (work[g].b # None => Made(work[g].b))
    BY HandlerFits, GuestsAndStaff
<1>1. CASE AskGuest(g)
    <2>1. work[g].b \in Bookings /\ Made(work[g].b) /\ waiting' = [waiting EXCEPT ![g] = work[g].b]
        BY <1>0, <1>1 DEF AskGuest, Fits, Working
    <2>2. RowsFit
        BY <1>1, <2>1 DEF AskGuest, TypeInv, Referenced, Made, StillMade, RowsFit
    <2> QED BY <1>0, <1>1, <2>2, LeaveFits DEF AskGuest, history, TypeInv
<1>2. CASE RowMoves(g) \/ CacheMoves(g) \/ Recover(g)
    <2>1. /\ UNCHANGED <<booking, order, work>>
          /\ asked' \in [Guests -> Bookings \cup {None}] /\ waiting' \in [Guests -> Bookings \cup {None}]
          /\ \A q \in Guests : asked'[q] \in {asked[q], None} /\ waiting'[q] \in {waiting[q], asked[q], None}
        BY <1>2 DEF RowMoves, CacheMoves, Recover, TypeInv
    <2>2. Referenced'
        BY <2>1 DEF TypeInv, Referenced, Made
    <2>3. marks' \in [Bookings -> SUBSET Marks] /\ outside' \in 0..MaxOutside
        <3>1. CASE RowMoves(g) \/ CacheMoves(g)
            BY <3>1, MarkFits DEF RowMoves, CacheMoves, Marks
        <3>2. CASE Recover(g)
            BY <3>2 DEF Recover, history, TypeInv
        <3> QED BY <1>2, <3>1, <3>2
    <2> QED BY <2>1, <2>2, <2>3 DEF TypeInv, Fits
<1> QED BY <1>1, <1>2

LEMMA TypePlaceOrder ==
    ASSUME TypeInv, NEW g \in Guests, PlaceOrder(g)
    PROVE  TypeInv'
<1>1. order' \in [Guests -> [status : OrderStatuses, booking : Bookings \cup {None}]]
      /\ \A q \in Guests : order'[q].booking = order[q].booking
    BY DEF PlaceOrder, TypeInv, OrderStatuses
<1>2. Referenced'
    BY <1>1 DEF PlaceOrder, TypeInv, Referenced, Made
<1> QED BY <1>1, <1>2 DEF PlaceOrder, TypeInv, history, Fits

\* A handler that begins with a booking or an order.
LEMMA TypeStart ==
    ASSUME TypeInv
    PROVE  /\ \A g \in Guests, kind \in {"confirm_booking", "cancel_booking"} :
                 Answer(g, kind) => TypeInv'
           /\ \A h \in Handlers, g \in Guests, kind \in {"confirm_order", "cancel_order"} :
                 TakeOrder(h, g, kind) /\ (kind = "cancel_order" => h = g) => TypeInv'
<1>1. ASSUME NEW g \in Guests, NEW kind \in {"confirm_booking", "cancel_booking"}, Answer(g, kind)
      PROVE  TypeInv'
    <2> DEFINE w == [Idle EXCEPT !.kind = kind, !.pc = "order", !.guest = g, !.b = waiting[g]]
    <2>1. g \in Handlers /\ waiting[g] \in Bookings /\ waiting[g] # None /\ Made(waiting[g])
        BY <1>1, GuestsAndStaff DEF Answer, TypeInv, Referenced
    <2>2. w \in Working /\ w.b = waiting[g]
        BY <2>1, IdleFits DEF Working, Kinds, GuestKinds
    <2>3. Fits(g, w)
        BY <2>1, IdleFits DEF Working, Fits, Idle, AskKinds, Confirming, PanelKinds
    <2>4. Moves(g, w)
        BY <1>1 DEF Answer, Start, Moves
    <2> QED BY <1>1, <2>1, <2>2, <2>3, <2>4, MemoryFits, HandlerFits DEF Answer, history
<1>2. ASSUME NEW h \in Handlers, NEW g \in Guests, NEW kind \in {"confirm_order", "cancel_order"},
             TakeOrder(h, g, kind), kind = "cancel_order" => h = g
      PROVE  TypeInv'
    <2> DEFINE w == [Idle EXCEPT !.kind = kind, !.pc = "order", !.guest = g, !.b = order[g].booking]
    <2>1. order[g].booking \in Bookings \cup {None} /\ (order[g].booking # None => Made(order[g].booking))
        BY DEF TypeInv, Referenced
    <2>2. w \in Working /\ w.b = order[g].booking
        BY <2>1, IdleFits DEF Working, Kinds, GuestKinds
    <2>3. Fits(h, w)
        BY <1>2, <2>1, IdleFits DEF Working, Fits, Idle, AskKinds, Confirming, PanelKinds
    <2>4. Moves(h, w)
        BY <1>2 DEF TakeOrder, Start, Moves
    <2>5. UNCHANGED <<rows, marks>> /\ (Outside \/ UNCHANGED outside)
        BY <1>2 DEF TakeOrder
    <2>6. outside' \in 0..MaxOutside
        BY <2>5 DEF Outside, TypeInv
    <2> QED BY <1>2, <2>1, <2>2, <2>3, <2>4, <2>5, <2>6, MemoryFits
<1> QED BY <1>1, <1>2

LEMMA TypeRefuse ==
    ASSUME TypeInv, NEW h \in Handlers, Refuse(h)
    PROVE  TypeInv'
<1>1. waiting' = waiting \/ waiting' = [waiting EXCEPT ![work[h].guest] = None]
    BY DEF Refuse, Forget
<1>2. RowsFit
    BY <1>1 DEF Refuse, TypeInv, Referenced, Made, StillMade, RowsFit
<1>3. marks' \in [Bookings -> SUBSET Marks] /\ outside' \in 0..MaxOutside
    BY MarkFits DEF Refuse, Marks
<1> QED BY <1>2, <1>3, LeaveFits DEF Refuse

LEMMA TypeRead ==
    ASSUME TypeInv, NEW h \in Handlers, ReadBooking(h) \/ Check(h)
    PROVE  TypeInv'
<1>0. work[h] \in Working /\ Fits(h, work[h]) /\ (work[h].b # None => Made(work[h].b))
      /\ outside \in 0..MaxOutside
    BY HandlerFits
<1>1. CASE Refuse(h)
    BY <1>1, TypeRefuse
<1>2. CASE ReadBooking(h) /\ ~Refuse(h)
    <2>1. work[h].kind \in {"confirm_booking", "confirm_order", "cancel_booking"} /\ work[h].pc = "order"
          /\ UNCHANGED <<rows, history>>
        BY <1>2 DEF ReadBooking
    <2>2. CASE work[h].b = None
        <3> DEFINE w == [work[h] EXCEPT !.pc = "ready"]
        <3>1. w \in Working /\ Fits(h, w) /\ w.b = None
            BY <1>0, <2>1, <2>2 DEF Working, Fits, Confirming, AskKinds, PanelKinds
        <3>2. Moves(h, w)
            BY <1>2, <2>2 DEF ReadBooking, Moves
        <3> QED BY <1>0, <2>1, <3>1, <3>2, MemoryFits DEF history
    <2>3. CASE work[h].b # None
        <3>1. PICK hall \in Halls, pc \in {"booking", "ready"} :
                /\ Moves(h, [work[h] EXCEPT !.hall = hall, !.pc = pc])
                /\ pc = "booking" <=> work[h].kind # "cancel_booking"
            <4>1. work' = [work EXCEPT ![h].hall = IF work[h].kind = "cancel_booking"
                                                   THEN @ ELSE booking[work[h].b].hall,
                                       ![h].pc = IF work[h].kind = "cancel_booking"
                                                 THEN "ready" ELSE "booking"]
                BY <1>2, <2>3 DEF ReadBooking
            <4>2. work[h].hall \in Halls /\ booking[work[h].b].hall \in Halls
                BY <1>0, <2>3 DEF Working, TypeInv
            <4> QED BY <4>1, <4>2 DEF Moves
        <3> DEFINE w == [work[h] EXCEPT !.hall = hall, !.pc = pc]
        <3>2. w \in Working /\ w.b = work[h].b
            BY <1>0 DEF Working
        <3>3. Fits(h, w)
            BY <1>0, <2>1, <2>3, <3>1 DEF Working, Fits, Confirming, AskKinds, PanelKinds
        <3> QED BY <1>0, <2>1, <3>1, <3>2, <3>3, MemoryFits DEF history
    <2> QED BY <2>2, <2>3
<1>3. CASE Check(h) /\ ~Refuse(h)
    <2>1. /\ work[h].pc = "booking" /\ UNCHANGED <<rows, history>>
          /\ work' = [work EXCEPT ![h].pc = "ready",
                                  ![h].hall = IF work[h].kind = "patch" THEN @ ELSE "hall_1"]
        BY <1>3 DEF Check
    <2>2. PICK hall \in Halls : Moves(h, [work[h] EXCEPT !.hall = hall, !.pc = "ready"])
        BY ZenonT(60), <1>0, <2>1 DEF Moves, Working, Halls
    <2> DEFINE w == [work[h] EXCEPT !.hall = hall, !.pc = "ready"]
    <2>3. w \in Working /\ w.b = work[h].b
        BY <1>0 DEF Working
    <2>4. Fits(h, w)
        BY <1>0, <2>1 DEF Working, Fits, Confirming, AskKinds, PanelKinds
    <2> QED BY <1>0, <2>1, <2>2, <2>3, <2>4, MemoryFits DEF history
<1> QED BY <1>1, <1>2, <1>3

\* A status is written to an existing booking.
LEMMA StatusFits ==
    ASSUME TypeInv, NEW b \in Bookings, NEW s \in Written, booking' = [booking EXCEPT ![b].status = s]
    PROVE  /\ booking' \in [Bookings -> [status : Written \cup {"none"}, hall : Halls]]
           /\ \A c \in Bookings : Made(c) => StillMade(c)
           /\ booking'[b].status = s /\ booking'[b].hall = booking[b].hall
           /\ \A c \in Bookings : c # b => booking'[c] = booking[c]
<1> DEFINE row == [booking[b] EXCEPT !.status = s]
<1>1. /\ row \in [status : Written \cup {"none"}, hall : Halls]
      /\ row.status = s /\ row.hall = booking[b].hall
    BY DEF TypeInv
<1>2. booking' = [booking EXCEPT ![b] = row]
    OBVIOUS
<1> HIDE DEF row
<1> QED BY <1>1, <1>2 DEF TypeInv, Made, StillMade, Written

\* The status of an order is written.
LEMMA OrderFits ==
    ASSUME TypeInv, NEW g \in Guests, NEW s \in OrderStatuses, order' = [order EXCEPT ![g].status = s]
    PROVE  /\ order' \in [Guests -> [status : OrderStatuses, booking : Bookings \cup {None}]]
           /\ order'[g].status = s
           /\ \A q \in Guests : order'[q].booking = order[q].booking /\ (q # g => order'[q] = order[q])
<1> DEFINE row == [order[g] EXCEPT !.status = s]
<1>1. /\ row \in [status : OrderStatuses, booking : Bookings \cup {None}]
      /\ row.status = s /\ row.booking = order[g].booking
    BY DEF TypeInv
<1>2. order' = [order EXCEPT ![g] = row]
    OBVIOUS
<1> HIDE DEF row
<1> QED BY <1>1, <1>2 DEF TypeInv

LEMMA TypeConfirm ==
    ASSUME TypeInv, NEW h \in Handlers, Confirm(h)
    PROVE  TypeInv'
<1>0. work[h] \in Working /\ Fits(h, work[h])
    BY HandlerFits
<1>1. work[h].guest \in Guests
    BY <1>0 DEF Confirm, Fits, Confirming
<1>2. /\ booking' \in [Bookings -> [status : Written \cup {"none"}, hall : Halls]]
      /\ \A c \in Bookings : Made(c) => StillMade(c)
    <2>1. CASE work[h].b = None
        BY <2>1 DEF Confirm, TypeInv, Made, StillMade
    <2>2. CASE work[h].b # None
        <3>1. work[h].b \in Bookings /\ booking' = [booking EXCEPT ![work[h].b].status = "confirmed"]
            BY <1>0, <2>2 DEF Confirm, Working
        <3> QED BY <3>1, StatusFits DEF Written
    <2> QED BY <2>1, <2>2
<1>3. /\ order' \in [Guests -> [status : OrderStatuses, booking : Bookings \cup {None}]]
      /\ \A q \in Guests : order'[q].booking = order[q].booking
    <2>1. CASE order' = order
        BY <2>1 DEF TypeInv
    <2>2. CASE order' = [order EXCEPT ![work[h].guest].status = "confirmed"]
        BY <1>1, <2>2, OrderFits DEF OrderStatuses
    <2> QED BY <2>1, <2>2 DEF Confirm
<1>4. /\ waiting' \in [Guests -> Bookings \cup {None}]
      /\ \A q \in Guests : waiting'[q] = waiting[q] \/ waiting'[q] = None
    BY DEF Confirm, Forget, TypeInv
<1>5. RowsFit
    BY <1>2, <1>3, <1>4 DEF Confirm, RowsFit, TypeInv, Referenced
<1>6. marks' \in [Bookings -> SUBSET Marks] /\ outside' \in 0..MaxOutside
    BY MarkFits DEF Confirm, Marks
<1> QED BY <1>5, <1>6, LeaveFits DEF Confirm

LEMMA TypeCancel ==
    ASSUME TypeInv, NEW g \in Guests, CancelBooking(g) \/ Hold(g) \/ CancelOrder(g)
    PROVE  TypeInv'
<1>0. /\ g \in Handlers /\ work[g] \in Working /\ Fits(g, work[g]) /\ outside \in 0..MaxOutside
      /\ work[g].b # None => Made(work[g].b)
    BY HandlerFits, GuestsAndStaff
<1>1. CASE CancelBooking(g)
    <2>1. work[g].b \in Bookings /\ booking' = [booking EXCEPT ![work[g].b].status = "cancelled"]
        BY <1>0, <1>1 DEF CancelBooking, Working, Fits
    <2>2. /\ booking' \in [Bookings -> [status : Written \cup {"none"}, hall : Halls]]
          /\ \A c \in Bookings : Made(c) => StillMade(c)
        BY <2>1, StatusFits DEF Written
    <2>3. RowsFit
        BY <1>1, <2>2 DEF CancelBooking, Forget, RowsFit, TypeInv, Referenced
    <2> QED BY <1>0, <1>1, <2>3, LeaveFits DEF CancelBooking, history, TypeInv
<1>2. CASE Hold(g)
    <2>1. PICK s \in {"draft", "none"} :
            /\ Moves(g, [work[g] EXCEPT !.pc = "held", !.status = s])
            /\ s = "draft" => work[g].b # None
        BY <1>2 DEF Hold, Holds, Moves, CancelsBooking
    <2> DEFINE w == [work[g] EXCEPT !.pc = "held", !.status = s]
    <2>2. w \in Working /\ w.b = work[g].b
        BY <1>0 DEF Working, Written
    <2>3. Fits(g, w)
        BY <1>0, <1>2, <2>1 DEF Hold, Working, Fits, Confirming, AskKinds, PanelKinds
    <2> QED BY <1>0, <1>2, <2>1, <2>2, <2>3, MemoryFits DEF Hold, history
<1>3. CASE CancelOrder(g)
    <2>1. /\ order' \in [Guests -> [status : OrderStatuses, booking : Bookings \cup {None}]]
          /\ \A q \in Guests : order'[q].booking = order[q].booking
        BY <1>3, OrderFits DEF CancelOrder, OrderStatuses
    <2>2. /\ booking' \in [Bookings -> [status : Written \cup {"none"}, hall : Halls]]
          /\ \A c \in Bookings : Made(c) => StillMade(c)
        <3>1. CASE booking' = booking
            BY <3>1 DEF TypeInv, Made, StillMade
        <3>2. CASE work[g].b \in Bookings /\ booking' = [booking EXCEPT ![work[g].b].status = "cancelled"]
            BY <3>2, StatusFits DEF Written
        <3> QED BY <1>0, <1>3, <3>1, <3>2 DEF CancelOrder, Working, Fits
    <2>3. RowsFit
        BY <1>3, <2>1, <2>2 DEF CancelOrder, RowsFit, TypeInv, Referenced
    <2> QED BY <1>0, <1>3, <2>3, LeaveFits DEF CancelOrder, history, TypeInv
<1> QED BY <1>1, <1>2, <1>3

LEMMA TypePatch ==
    ASSUME TypeInv, NEW s \in Staff, NEW b \in Bookings, NEW hall \in Halls, NEW status \in Written,
           Patch(s, b, hall, status)
    PROVE  TypeInv'
<1> DEFINE dirty == {c \in {"hall"} : hall # booking[b].hall}
                        \cup {c \in {"status"} : status # booking[b].status}
           w == [Idle EXCEPT !.kind = "patch", !.pc = "booking", !.b = b,
                             !.hall = hall, !.status = status, !.dirty = dirty]
<1>1. dirty \in SUBSET {"hall", "status"} /\ s \in Handlers
    BY GuestsAndStaff
<1>2. w \in Working /\ w.b = b
    BY <1>1, IdleFits DEF Working, Kinds
<1>3. Fits(s, w)
    BY <1>1, IdleFits DEF Working, Fits, AskKinds, Confirming, PanelKinds
<1>4. Moves(s, w) /\ Made(b)
    BY DEF Patch, Start, Moves, Made
<1>5. outside' \in 0..MaxOutside
    <2>1. Outside
        BY DEF Patch
    <2> QED BY <2>1 DEF Outside, TypeInv
<1> QED BY <1>1, <1>2, <1>3, <1>4, <1>5, MemoryFits DEF Patch

\* The columns a patch changes; its row keeps being one.
LEMMA PatchedFits ==
    ASSUME TypeInv, NEW s \in Staff, SavePatch(s)
    PROVE  /\ work[s].b \in Bookings
           /\ booking' \in [Bookings -> [status : Written \cup {"none"}, hall : Halls]]
           /\ \A c \in Bookings : (Made(c) => StillMade(c)) /\ (c # work[s].b => booking'[c] = booking[c])
<1>0. work[s] \in Working /\ Fits(s, work[s]) /\ (work[s].b # None => Made(work[s].b))
    BY HandlerFits, GuestsAndStaff
<1>1. PICK b \in Bookings : b = work[s].b /\ Made(b)
    BY <1>0 DEF SavePatch, Working, Fits
<1> DEFINE row == [booking[b] EXCEPT
                     !.hall   = IF "hall" \in work[s].dirty THEN work[s].hall ELSE @,
                     !.status = IF "status" \in work[s].dirty THEN work[s].status ELSE @]
<1>2. row \in [status : Written \cup {"none"}, hall : Halls] /\ row.status # "none"
    <2>1. /\ booking[b] \in [status : Written \cup {"none"}, hall : Halls] /\ booking[b].status # "none"
          /\ work[s].hall \in Halls /\ work[s].status \in Written /\ "none" \notin Written
        BY <1>0, <1>1 DEF SavePatch, Working, Fits, TypeInv, Made, Written
    <2> QED BY <2>1
<1>3. booking' = [booking EXCEPT ![b] = row]
    BY <1>1 DEF SavePatch
<1> HIDE DEF row
<1> QED BY <1>1, <1>2, <1>3 DEF TypeInv, Made, StillMade

LEMMA TypePanel ==
    ASSUME TypeInv, NEW s \in Staff,
           SavePatch(s) \/ (\E g \in Guests, kind \in PanelKinds : OpenOrder(s, g, kind)) \/ SaveOrder(s)
    PROVE  TypeInv'
<1>0. s \in Handlers /\ work[s] \in Working /\ Fits(s, work[s]) /\ outside \in 0..MaxOutside
    BY HandlerFits, GuestsAndStaff
<1>1. CASE SavePatch(s)
    <2>1. RowsFit
        BY ZenonT(60), <1>1, PatchedFits DEF SavePatch, RowsFit, TypeInv, Referenced
    <2>2. marks' \in [Bookings -> SUBSET Marks] /\ outside' \in 0..MaxOutside
        BY <1>1, MarkFits DEF SavePatch, Marks
    <2> QED BY <1>0, <1>1, <2>1, <2>2, LeaveFits DEF SavePatch
<1>2. ASSUME NEW g \in Guests, NEW kind \in PanelKinds, OpenOrder(s, g, kind) PROVE TypeInv'
    <2> DEFINE w == [Idle EXCEPT !.kind = kind, !.pc = "ready", !.guest = g]
    <2>1. w \in Working /\ w.b = None
        BY IdleFits DEF Working, Kinds
    <2>2. Fits(s, w)
        BY <1>0, IdleFits DEF Working, Fits, AskKinds, Confirming, PanelKinds
    <2>3. Moves(s, w)
        BY <1>2 DEF OpenOrder, Start, Moves
    <2>4. outside' \in 0..MaxOutside
        <3>1. Outside
            BY <1>2 DEF OpenOrder
        <3> QED BY <3>1 DEF Outside, TypeInv
    <2> QED BY <1>0, <1>2, <2>1, <2>2, <2>3, <2>4, MemoryFits DEF OpenOrder
<1>3. CASE SaveOrder(s)
    <2>1. PICK g \in Guests : g = work[s].guest
        BY <1>0, <1>3 DEF SaveOrder, Fits
    <2> DEFINE row == IF work[s].kind = "delete" THEN DeletedOrder
                      ELSE [order[g] EXCEPT !.status = PanelStatus(work[s].kind)]
    <2>2. /\ row \in [status : OrderStatuses, booking : Bookings \cup {None}]
          /\ row.booking = order[g].booking \/ row.booking = None
        BY DEF TypeInv, OrderStatuses, PanelStatus, DeletedOrder, NoOrder
    <2>3. order' = [order EXCEPT ![g] = row]
        BY <1>3, <2>1 DEF SaveOrder
    <2> HIDE DEF row
    <2>4. /\ order' \in [Guests -> [status : OrderStatuses, booking : Bookings \cup {None}]]
          /\ \A q \in Guests : order'[q].booking = order[q].booking \/ order'[q].booking = None
        BY <2>2, <2>3 DEF TypeInv
    <2>5. RowsFit
        BY <1>3, <2>4 DEF SaveOrder, RowsFit, TypeInv, Referenced, Made, StillMade
    <2>6. marks' \in [Bookings -> SUBSET Marks] /\ outside' \in 0..MaxOutside
        BY <1>3, MarkFits DEF SaveOrder, Marks
    <2> QED BY <1>0, <1>3, <2>5, <2>6, LeaveFits DEF SaveOrder
<1> QED BY <1>1, <1>2, <1>3

LEMMA TypeAbort ==
    ASSUME TypeInv, NEW h \in Handlers, Abort(h)
    PROVE  TypeInv'
<1>1. marks' \in [Bookings -> SUBSET Marks] /\ outside' \in 0..MaxOutside
    BY MarkFits DEF Abort, Marks
<1> QED BY <1>1, SameRows, LeaveFits DEF Abort

LEMMA TypeNext == TypeInv /\ [Next]_vars => TypeInv'
<1> SUFFICES ASSUME TypeInv, [Next]_vars PROVE TypeInv'
    OBVIOUS
<1>1. CASE UNCHANGED vars
    BY <1>1 DEF vars, rows, history, TypeInv, Referenced, Made, Fits
<1>2. ASSUME NEW g \in Guests,
             \/ \E kind \in AskKinds, hall \in Halls : Ask(g, kind, hall)
             \/ Insert(g) \/ PlaceOrder(g) \/ AskGuest(g) \/ RowMoves(g) \/ CacheMoves(g) \/ Recover(g)
             \/ \E kind \in {"confirm_booking", "cancel_booking"} : Answer(g, kind)
             \/ \E kind \in {"confirm_order", "cancel_order"} : TakeOrder(g, g, kind)
             \/ CancelBooking(g) \/ Hold(g) \/ CancelOrder(g)
      PROVE  TypeInv'
    BY <1>2, GuestsAndStaff, TypeAsk, TypeInsert, TypePlaceOrder, TypeDialog, TypeStart, TypeCancel
<1>3. ASSUME NEW s \in Staff,
             \/ \E g \in Guests : TakeOrder(s, g, "confirm_order")
             \/ \E b \in Bookings, hall \in Halls, status \in Written : Patch(s, b, hall, status)
             \/ SavePatch(s)
             \/ \E g \in Guests, kind \in PanelKinds : OpenOrder(s, g, kind)
             \/ SaveOrder(s)
      PROVE  TypeInv'
    BY <1>3, GuestsAndStaff, TypeStart, TypePatch, TypePanel
<1>4. ASSUME NEW h \in Handlers, ReadBooking(h) \/ Check(h) \/ Confirm(h) \/ Abort(h)
      PROVE  TypeInv'
    BY <1>4, TypeRead, TypeConfirm, TypeAbort
<1> QED BY <1>1, <1>2, <1>3, <1>4 DEF Next

LEMMA TypeAlways == Spec => []TypeInv
BY TypeInit, TypeNext, PTL DEF Spec

\* Rows, orders and handlers take only the values the code knows, and nobody
\* speaks of a booking that was never inserted.
THEOREM TypeCorrect == Spec => []TypeOK
BY TypeAlways, TypeGivesTypeOK, PTL

-----------------------------------------------------------------------------
(* Who speaks of which booking *)

TalkKinds == {"book", "confirm_booking", "cancel_booking"}

\* Guest g is, was a moment ago, or is about to be asked about b.
Talks(g, b) ==
    /\ b # None
    /\ waiting[g] = b \/ asked[g] = b \/ (work[g].kind \in TalkKinds /\ work[g].b = b)

\* What a guest's handler knows of the guest.
Knows(g) ==
    /\ work[g].pc = "asked" => waiting[g] = None /\ asked[g] = None
    /\ work[g].kind = "preorder" => order[g].booking = None
    /\ work[g].kind = "cancel_order" => work[g].b = order[g].booking \/ order[g].status = "deleted"
    /\ work[g].pc = "held" => Stored(g)

\* Whoever confirms an order with a booking has the order's.
HasOrders(h) ==
    work[h].kind = "confirm_order" /\ work[h].b # None =>
        work[h].b = order[work[h].guest].booking \/ order[work[h].guest].status = "deleted"

\* A guest is asked about one booking; a booking is one guest's to be asked
\* about, or in one order, or neither.
Apart ==
    /\ \A g \in Guests, b, c \in Bookings : Talks(g, b) /\ Talks(g, c) => b = c
    /\ \A g, o \in Guests, b \in Bookings :
          Talks(g, b) => order[o].booking # b /\ (Talks(o, b) => o = g)
    /\ \A g, o \in Guests :
          order[g].booking # None /\ order[o].booking = order[g].booking => o = g

LinkInv ==
    /\ \A g \in Guests : Knows(g) /\ (~Stored(g) => order[g].booking = None)
    /\ \A h \in Handlers : HasOrders(h)
    /\ Apart

\* Nobody is asked about another booking than before, and nobody out of the
\* blue but by handler h.
Hushed(h) ==
    \A g \in Guests :
        /\ \A b \in Bookings : Talks(g, b)' => Talks(g, b)
        /\ waiting[g] = None /\ asked[g] = None /\ g # h => waiting'[g] = None /\ asked'[g] = None

\* A step of handler h that inserts no booking: the other handlers stay, and
\* an order keeps its booking until it is deleted, which its lock prevents.
Shape(h) ==
    /\ \A q \in Handlers \ {h} : work'[q] = work[q]
    /\ Hushed(h)
    /\ \A g \in Guests :
          \/ order'[g] = order[g]
          \/ /\ order'[g].booking = order[g].booking /\ order'[g].status \notin {"none", "deleted"}
             /\ order[g].status # "deleted"
          \/ order'[g] = DeletedOrder /\ ~Locked(g)

LEMMA LinkInit == Init => LinkInv
<1> SUFFICES ASSUME Init PROVE LinkInv
    OBVIOUS
<1>1. \A h \in Handlers : work[h].kind = "idle" /\ work[h].pc = "idle"
    BY DEF Init, Idle
<1>2. \A g \in Guests : order[g].booking = None
    BY DEF Init, NoOrder
<1>3. \A g \in Guests, b \in Bookings : ~Talks(g, b)
    BY <1>1, GuestsAndStaff DEF Init, Talks, TalkKinds
<1> QED BY <1>1, <1>2, <1>3, GuestsAndStaff DEF LinkInv, Knows, HasOrders, Apart

\* The dialogs go on as they were, or end, or Redis is filled from the row.
LEMMA Hushes ==
    ASSUME TypeInv, NEW h \in Handlers, \A q \in Handlers \ {h} : work'[q] = work[q],
           \/ work'[h].b = None \/ work'[h].kind \notin TalkKinds
           \/ work'[h].b = work[h].b /\ work'[h].kind = work[h].kind
           \/ h \in Guests /\ work'[h].b = waiting[h],
           \A g \in Guests : waiting'[g] \in {waiting[g], asked[g], None} /\ asked'[g] \in {asked[g], None}
    PROVE  Hushed(h)
<1>1. ASSUME NEW g \in Guests, NEW b \in Bookings, Talks(g, b)' PROVE Talks(g, b)
    <2>1. b # None /\ g \in Handlers
        BY <1>1, GuestsAndStaff DEF Talks
    <2>2. waiting'[g] = b \/ asked'[g] = b \/ (work'[g].kind \in TalkKinds /\ work'[g].b = b)
        BY <1>1 DEF Talks
    <2>3. CASE waiting'[g] = b \/ asked'[g] = b
        BY <2>1, <2>3 DEF Talks
    <2>4. CASE work'[g].kind \in TalkKinds /\ work'[g].b = b
        BY <2>1, <2>4 DEF Talks
    <2> QED BY <2>2, <2>3, <2>4
<1> QED BY <1>1 DEF Hushed

LEMMA LinkKept ==
    ASSUME TypeInv, TypeInv', LinkInv, NEW h \in Handlers, Shape(h), h \in Guests => Knows(h)', HasOrders(h)'
    PROVE  LinkInv'
<1>1. ASSUME NEW g \in Guests PROVE Knows(g)'
    <2>1. CASE g = h
        BY <2>1
    <2>2. CASE g # h
        <3>1. work'[g] = work[g] /\ (waiting[g] = None /\ asked[g] = None => waiting'[g] = None /\ asked'[g] = None)
            BY <2>2, GuestsAndStaff DEF Shape, Hushed
        <3>2. work[g].pc = "held" => Locked(g)
            BY GuestsAndStaff DEF Locked, TypeInv, Fits
        <3>3. Knows(g)
            BY DEF LinkInv
        <3>4. /\ work[g].kind = "preorder" => order'[g].booking = None
              /\ work[g].kind = "cancel_order" => work[g].b = order'[g].booking \/ order'[g].status = "deleted"
              /\ work[g].pc = "held" => order'[g].status \notin {"none", "deleted"}
            BY <3>2, <3>3 DEF Shape, Knows, Stored, DeletedOrder, NoOrder
        <3> QED BY <3>1, <3>3, <3>4 DEF Knows, Stored
    <2> QED BY <2>1, <2>2
<1>2. ASSUME NEW g \in Guests, ~Stored(g)' PROVE order'[g].booking = None
    BY <1>2 DEF LinkInv, Shape, Stored, DeletedOrder, NoOrder
<1>3. ASSUME NEW q \in Handlers PROVE HasOrders(q)'
    <2>1. CASE q = h
        BY <2>1
    <2>2. CASE q # h
        <3>1. work'[q] = work[q] /\ HasOrders(q)
            BY <2>2 DEF Shape, LinkInv
        <3>2. work[q].kind = "confirm_order" => work[q].guest \in Guests
            BY DEF TypeInv, Fits, Confirming
        <3> QED BY <3>1, <3>2 DEF HasOrders, Shape, DeletedOrder, NoOrder
    <2> QED BY <2>1, <2>2
<1>4. Apart'
    <2>1. \A g \in Guests, b \in Bookings : Talks(g, b)' => Talks(g, b)
        BY DEF Shape, Hushed
    <2>2. \A g \in Guests : order'[g].booking # None => order'[g].booking = order[g].booking
        BY DEF Shape, DeletedOrder, NoOrder
    <2>3. Apart
        BY DEF LinkInv
    <2>4. \A g \in Guests, b, c \in Bookings : Talks(g, b)' /\ Talks(g, c)' => b = c
        BY <2>1, <2>3 DEF Apart
    <2>5. ASSUME NEW g \in Guests, NEW o \in Guests, NEW b \in Bookings, Talks(g, b)'
          PROVE  order'[o].booking # b /\ (Talks(o, b)' => o = g)
        <3>1. Talks(g, b) /\ b # None
            BY <2>1, <2>5 DEF Talks
        <3> QED BY <2>1, <2>2, <2>3, <3>1 DEF Apart
    <2>6. \A g, o \in Guests :
             order'[g].booking # None /\ order'[o].booking = order'[g].booking => o = g
        BY <2>2, <2>3 DEF Apart
    <2> HIDE DEF Talks
    <2> QED BY <2>4, <2>5, <2>6 DEF Apart
<1> QED BY <1>1, <1>2, <1>3, <1>4 DEF LinkInv

\* The end of a handler.
LEMMA LinkLeave ==
    ASSUME TypeInv, TypeInv', LinkInv, NEW h \in Handlers, Leave(h), Shape(h)
    PROVE  LinkInv'
<1>1. work'[h] = Idle
    BY DEF Leave, TypeInv
<1>2. HasOrders(h)' /\ (h \in Guests => Knows(h)')
    BY <1>1 DEF HasOrders, Knows, Idle, AskKinds
<1> QED BY <1>2, LinkKept

\* A handler ends, and at most forgets the question.
LEMMA LeaveHushes ==
    ASSUME TypeInv, NEW h \in Handlers, Leave(h),
           \/ UNCHANGED <<asked, waiting>>
           \/ \E g \in Guests : Forget(g) /\ UNCHANGED asked
    PROVE  Hushed(h)
<1>1. work'[h] = Idle /\ \A q \in Handlers \ {h} : work'[q] = work[q]
    BY DEF Leave, TypeInv
<1>2. \A g \in Guests : waiting'[g] \in {waiting[g], asked[g], None} /\ asked'[g] \in {asked[g], None}
    BY DEF Forget, TypeInv
<1> QED BY <1>1, <1>2, IdleFits, Hushes

LEMMA MoveShape ==
    ASSUME TypeInv, NEW h \in Handlers, NEW w, Moves(h, w)
    PROVE  /\ work'[h] = w /\ (\A q \in Handlers \ {h} : work'[q] = work[q])
           /\ UNCHANGED rows /\ (\/ w.b = None \/ w.kind \notin TalkKinds
                                 \/ h \in Guests /\ w.b = waiting[h]) => Shape(h)
<1>1. work'[h] = w /\ (\A q \in Handlers \ {h} : work'[q] = work[q])
    BY DEF TypeInv, Moves
<1>2. ASSUME UNCHANGED rows, \/ w.b = None \/ w.kind \notin TalkKinds
                             \/ h \in Guests /\ w.b = waiting[h]
      PROVE  Shape(h)
    <2>1. Hushed(h)
        BY <1>1, <1>2, Hushes DEF rows
    <2> QED BY <1>1, <1>2, <2>1 DEF Shape, rows
<1> QED BY <1>1, <1>2

LEMMA LinkAsk ==
    ASSUME TypeInv, TypeInv', LinkInv, NEW g \in Guests,
           \/ \E kind \in AskKinds, hall \in Halls : Ask(g, kind, hall)
           \/ \E kind \in {"confirm_booking", "cancel_booking"} : Answer(g, kind)
           \/ PlaceOrder(g)
    PROVE  LinkInv'
<1>0. g \in Handlers
    BY GuestsAndStaff
<1>1. ASSUME NEW kind \in AskKinds, NEW hall \in Halls, Ask(g, kind, hall) PROVE LinkInv'
    <2>1. PICK w \in {[Idle EXCEPT !.kind = kind, !.pc = "asked", !.guest = g, !.hall = hall,
                             !.status = order[g].status]} :
             Moves(g, w) /\ UNCHANGED rows
        BY <1>1 DEF Ask, Start, Moves
    <2>2. w.kind = kind /\ w.pc = "asked" /\ w.b = None
        BY <2>1, IdleFits DEF Working
    <2>3. work'[g] = w /\ Shape(g)
        BY <1>0, <2>1, <2>2, MoveShape
    <2>4. Knows(g)' /\ HasOrders(g)'
        BY <1>1, <2>1, <2>2, <2>3 DEF Ask, Knows, HasOrders, AskKinds, rows
    <2> QED BY <1>0, <2>3, <2>4, LinkKept
<1>2. ASSUME NEW kind \in {"confirm_booking", "cancel_booking"}, Answer(g, kind) PROVE LinkInv'
    <2>1. PICK w \in {[Idle EXCEPT !.kind = kind, !.pc = "order", !.guest = g, !.b = waiting[g]]} :
             Moves(g, w) /\ UNCHANGED rows
        BY <1>2 DEF Answer, Start, Moves
    <2>2. w.kind = kind /\ w.pc = "order" /\ w.b = waiting[g]
        BY <2>1, IdleFits DEF Working
    <2>3. work'[g] = w /\ Shape(g)
        BY <1>0, <2>1, <2>2, MoveShape
    <2>4. Knows(g)' /\ HasOrders(g)'
        BY <2>1, <2>2, <2>3 DEF Knows, HasOrders, AskKinds, rows
    <2> QED BY <1>0, <2>3, <2>4, LinkKept
<1>3. CASE PlaceOrder(g)
    <2>1. order' = [order EXCEPT ![g].status = "draft"] /\ order[g].status = "none"
          /\ UNCHANGED <<asked, waiting, work>> /\ work[g] = Idle
        BY <1>3 DEF PlaceOrder
    <2>2a. Hushed(g)
        BY <1>0, <2>1, Hushes
    <2>2. Shape(g)
        BY <2>1, <2>2a, OrderFits DEF Shape, OrderStatuses
    <2>3. Knows(g)' /\ HasOrders(g)'
        BY <2>1 DEF Knows, HasOrders, AskKinds, Idle
    <2> QED BY <1>0, <2>2, <2>3, LinkKept
<1> QED BY <1>1, <1>2, <1>3

LEMMA LinkTakeOrder ==
    ASSUME TypeInv, TypeInv', LinkInv, NEW h \in Handlers, NEW g \in Guests,
           NEW kind \in {"confirm_order", "cancel_order"}, TakeOrder(h, g, kind), kind = "cancel_order" => h = g
    PROVE  LinkInv'
<1>1. PICK w \in {[Idle EXCEPT !.kind = kind, !.pc = "order", !.guest = g, !.b = order[g].booking]} :
         Moves(h, w) /\ UNCHANGED rows
    BY DEF TakeOrder, Start, Moves
<1>2. w.kind = kind /\ w.pc = "order" /\ w.b = order[g].booking /\ w.guest = g
    BY <1>1, IdleFits DEF Working
<1>3. work'[h] = w /\ Shape(h)
    BY <1>1, <1>2, MoveShape DEF TalkKinds
<1>4. HasOrders(h)' /\ (h \in Guests => Knows(h)')
    BY <1>1, <1>2, <1>3 DEF Knows, HasOrders, AskKinds, rows
<1> QED BY <1>3, <1>4, LinkKept

\* ReadBooking and Check, when they go on.
LEMMA ReadGoes ==
    ASSUME TypeInv, NEW h \in Handlers, ReadBooking(h) \/ Check(h), ~Refuse(h)
    PROVE  /\ UNCHANGED <<rows, history>> /\ \A q \in Handlers \ {h} : work'[q] = work[q]
           /\ work'[h].kind = work[h].kind /\ work'[h].b = work[h].b /\ work'[h].guest = work[h].guest
           /\ work'[h].status = work[h].status
           /\ \/ /\ work[h].pc = "order" /\ work'[h].pc = "booking" /\ work[h].kind \in Confirming
                 /\ work[h].b # None /\ work'[h].hall = booking[work[h].b].hall
              \/ /\ work[h].pc = "order" /\ work'[h].pc = "ready"
                 /\ work[h].b = None \/ (work[h].kind = "cancel_booking" /\ booking[work[h].b].status = "draft")
              \/ work[h].pc = "booking" /\ work'[h].pc = "ready" /\ Free(h)
<1>0. work[h] \in Working /\ Fits(h, work[h])
    BY HandlerFits
<1>1. CASE ReadBooking(h) /\ work[h].b = None
    <2>1. work' = [work EXCEPT ![h].pc = "ready"] /\ work[h].pc = "order" /\ UNCHANGED <<rows, history>>
        BY <1>1 DEF ReadBooking
    <2> QED BY <1>0, <1>1, <2>1 DEF Working, TypeInv
<1>2. CASE ReadBooking(h) /\ work[h].b # None /\ work[h].kind = "cancel_booking"
    <2>1. /\ work' = [work EXCEPT ![h].hall = @, ![h].pc = "ready"] /\ work[h].pc = "order"
          /\ booking[work[h].b].status = "draft" /\ UNCHANGED <<rows, history>>
        BY <1>2 DEF ReadBooking
    <2> QED BY <1>0, <1>2, <2>1 DEF Working, TypeInv
<1>3. CASE ReadBooking(h) /\ work[h].b # None /\ work[h].kind # "cancel_booking"
    <2>1. /\ work' = [work EXCEPT ![h].hall = booking[work[h].b].hall, ![h].pc = "booking"]
          /\ work[h].pc = "order" /\ work[h].kind \in Confirming /\ UNCHANGED <<rows, history>>
        BY <1>3 DEF ReadBooking, Confirming
    <2> QED BY <1>0, <1>3, <2>1 DEF Working, TypeInv
<1>4. CASE Check(h)
    <2>1. PICK hall : work' = [work EXCEPT ![h].pc = "ready", ![h].hall = hall]
                      /\ work[h].pc = "booking" /\ Free(h) /\ UNCHANGED <<rows, history>>
        BY <1>4 DEF Check
    <2> QED BY <1>0, <2>1 DEF Working, TypeInv
<1> QED BY <1>1, <1>2, <1>3, <1>4

LEMMA LinkRead ==
    ASSUME TypeInv, TypeInv', LinkInv, NEW h \in Handlers, ReadBooking(h) \/ Check(h), ~Refuse(h)
    PROVE  LinkInv'
<1>1. /\ UNCHANGED <<rows, history>> /\ \A q \in Handlers \ {h} : work'[q] = work[q]
      /\ work'[h].kind = work[h].kind /\ work'[h].b = work[h].b /\ work'[h].guest = work[h].guest
      /\ work'[h].pc \notin {"held", "asked"}
    BY ReadGoes
<1>1a. Hushed(h)
    BY <1>1, Hushes DEF rows
<1>2. Shape(h)
    BY <1>1, <1>1a DEF Shape, rows
<1>3. HasOrders(h)' /\ (h \in Guests => Knows(h)')
    BY <1>1 DEF LinkInv, HasOrders, Knows, rows
<1> QED BY <1>2, <1>3, LinkKept

LEMMA LinkRefuse ==
    ASSUME TypeInv, TypeInv', LinkInv, NEW h \in Handlers, Refuse(h)
    PROVE  LinkInv'
<1>1. Leave(h) /\ order' = order
    BY DEF Refuse
<1>2. Hushed(h)
    BY LeaveHushes, HandlerFits DEF Refuse, Fits
<1>3. Shape(h)
    BY <1>1, <1>2 DEF Leave, Shape, TypeInv
<1> QED BY <1>1, <1>3, LinkLeave

LEMMA LinkConfirm ==
    ASSUME TypeInv, TypeInv', LinkInv, NEW h \in Handlers, Confirm(h)
    PROVE  LinkInv'
<1>0. work[h] \in Working /\ Fits(h, work[h])
    BY HandlerFits
<1>1. Leave(h)
    BY DEF Confirm
<1>2. CASE work[h].kind = "confirm_order"
    <2>1. PICK g \in Guests : g = work[h].guest
        BY <1>0, <1>2 DEF Fits, Confirming
    <2>2. /\ order' = [order EXCEPT ![g].status = "confirmed"] /\ Stored(g) /\ UNCHANGED <<asked, waiting>>
        BY <1>2, <2>1 DEF Confirm
    <2>2a. Hushed(h)
        BY <1>1, <2>2, LeaveHushes
    <2>3. Shape(h)
        BY <1>1, <2>2, <2>2a, OrderFits DEF Leave, Shape, OrderStatuses, Stored, TypeInv
    <2> QED BY <1>1, <2>3, LinkLeave
<1>3. CASE work[h].kind # "confirm_order"
    <2>1. h \in Guests /\ Forget(h) /\ UNCHANGED asked /\ order' = order
        BY <1>0, <1>3 DEF Confirm, Fits
    <2>1a. Hushed(h)
        BY <1>1, <2>1, LeaveHushes
    <2>2. Shape(h)
        BY <1>1, <2>1, <2>1a DEF Leave, Shape, TypeInv
    <2> QED BY <1>1, <2>2, LinkLeave
<1> QED BY <1>2, <1>3

LEMMA LinkCancel ==
    ASSUME TypeInv, TypeInv', LinkInv, NEW g \in Guests, CancelBooking(g) \/ Hold(g) \/ CancelOrder(g)
    PROVE  LinkInv'
<1>0. g \in Handlers /\ work[g] \in Working /\ Fits(g, work[g]) /\ Knows(g)
    BY HandlerFits, GuestsAndStaff DEF LinkInv
<1>1. CASE CancelBooking(g)
    <2>1. Leave(g) /\ Forget(g) /\ UNCHANGED asked /\ order' = order
        BY <1>1 DEF CancelBooking
    <2>1a. Hushed(g)
        BY <1>0, <2>1, LeaveHushes
    <2>2. Shape(g)
        BY <2>1, <2>1a DEF Leave, Shape, TypeInv
    <2> QED BY <1>0, <2>1, <2>2, LinkLeave
<1>2. CASE Hold(g)
    <2>1. PICK s : work' = [work EXCEPT ![g].pc = "held", ![g].status = s]
                   /\ Stored(g) /\ work[g].kind = "cancel_order" /\ UNCHANGED rows
        BY <1>2 DEF Hold, Holds
    <2>2. /\ work'[g].kind = "cancel_order" /\ work'[g].b = work[g].b /\ work'[g].pc = "held"
          /\ \A q \in Handlers \ {g} : work'[q] = work[q]
        BY <1>0, <2>1 DEF Working, TypeInv
    <2>2a. Hushed(g)
        BY <1>0, <2>1, <2>2, Hushes DEF rows, TalkKinds
    <2>2b. Shape(g)
        BY <2>1, <2>2, <2>2a DEF Shape, rows
    <2>3. Knows(g)' /\ HasOrders(g)'
        BY <1>0, <2>1, <2>2 DEF Knows, HasOrders, AskKinds, rows, Stored
    <2> QED BY <1>0, <2>2b, <2>3, LinkKept
<1>3. CASE CancelOrder(g)
    <2>1. Leave(g) /\ order' = [order EXCEPT ![g].status = "cancelled"] /\ UNCHANGED <<asked, waiting>>
        BY <1>3 DEF CancelOrder
    <2>1a. Hushed(g)
        BY <1>0, <2>1, LeaveHushes
    <2>2. Stored(g)
        BY <1>0, <1>3 DEF CancelOrder, Knows, Fits
    <2>3. Shape(g)
        BY <2>1, <2>1a, <2>2, OrderFits DEF Leave, Shape, OrderStatuses, Stored, TypeInv
    <2> QED BY <1>0, <2>1, <2>3, LinkLeave
<1> QED BY <1>1, <1>2, <1>3

LEMMA LinkPanel ==
    ASSUME TypeInv, TypeInv', LinkInv, NEW s \in Staff,
           \/ \E b \in Bookings, hall \in Halls, status \in Written : Patch(s, b, hall, status)
           \/ SavePatch(s)
           \/ \E g \in Guests, kind \in PanelKinds : OpenOrder(s, g, kind)
           \/ SaveOrder(s)
    PROVE  LinkInv'
<1>0. s \in Handlers /\ s \notin Guests /\ Fits(s, work[s])
    BY HandlerFits, GuestsAndStaff
<1>1. ASSUME NEW w, Moves(s, w), w.kind # "confirm_order", w.kind \notin TalkKinds, UNCHANGED rows
      PROVE  LinkInv'
    <2>1. work'[s] = w /\ Shape(s)
        BY <1>0, <1>1, MoveShape
    <2>2. HasOrders(s)'
        BY <1>1, <2>1 DEF HasOrders
    <2> QED BY <1>0, <2>1, <2>2, LinkKept
<1>2. ASSUME NEW b \in Bookings, NEW hall \in Halls, NEW status \in Written, Patch(s, b, hall, status)
      PROVE  LinkInv'
    <2>1. PICK dirty : Moves(s, [Idle EXCEPT !.kind = "patch", !.pc = "booking", !.b = b,
                                             !.hall = hall, !.status = status, !.dirty = dirty])
                       /\ UNCHANGED rows
        BY <1>2 DEF Patch, Start, Moves
    <2>2. [Idle EXCEPT !.kind = "patch", !.pc = "booking", !.b = b,
                       !.hall = hall, !.status = status, !.dirty = dirty].kind = "patch"
        BY DEF Idle
    <2> QED BY <1>1, <2>1, <2>2 DEF TalkKinds
<1>3. ASSUME NEW g \in Guests, NEW kind \in PanelKinds, OpenOrder(s, g, kind) PROVE LinkInv'
    <2>1. Moves(s, [Idle EXCEPT !.kind = kind, !.pc = "ready", !.guest = g]) /\ UNCHANGED rows
        BY <1>3 DEF OpenOrder, Start, Moves
    <2>2. [Idle EXCEPT !.kind = kind, !.pc = "ready", !.guest = g].kind \notin TalkKinds \cup {"confirm_order"}
        BY DEF Idle, PanelKinds, TalkKinds
    <2> QED BY <1>1, <2>1, <2>2
<1>4. CASE SavePatch(s)
    <2>1. Leave(s) /\ Hushed(s) /\ order' = order
        BY <1>0, <1>4, LeaveHushes DEF SavePatch
    <2>2. Shape(s)
        BY <2>1 DEF Leave, Shape, TypeInv
    <2> QED BY <1>0, <2>1, <2>2, LinkLeave
<1>5. CASE SaveOrder(s)
    <2>1. PICK g \in Guests : g = work[s].guest
        BY <1>0, <1>5 DEF SaveOrder, Fits
    <2>2. Leave(s) /\ ~Locked(g) /\ Stored(g) /\ Hushed(s)
        BY <1>0, <1>5, <2>1, LeaveHushes DEF SaveOrder
    <2>3. \/ order' = [order EXCEPT ![g] = DeletedOrder]
          \/ \E status \in {"draft", "cancelled"} : order' = [order EXCEPT ![g].status = status]
        BY <1>5, <2>1 DEF SaveOrder, PanelStatus
    <2>4. Shape(s)
        <3>1. CASE order' = [order EXCEPT ![g] = DeletedOrder]
            BY <2>2, <3>1 DEF Leave, Shape, TypeInv
        <3>2. ASSUME NEW status \in {"draft", "cancelled"}, order' = [order EXCEPT ![g].status = status]
              PROVE  Shape(s)
            BY <2>2, <3>2, OrderFits DEF Leave, Shape, TypeInv, Stored, OrderStatuses
        <3> QED BY <2>3, <3>1, <3>2
    <2> QED BY <1>0, <2>2, <2>4, LinkLeave
<1> QED BY <1>2, <1>3, <1>4, <1>5

\* What an insertion writes: a new booking is to be asked about, or is put into
\* an order without one, or is left.
Inserted(g, b) ==
    /\ booking[b].status = "none" /\ booking'[b].status = "draft"
    /\ \A c \in Bookings : c # b => booking'[c] = booking[c]
    /\ g \in Handlers /\ work[g].pc = "asked" /\ \A q \in Handlers \ {g} : work'[q] = work[q]
    /\ waiting' = waiting /\ waiting[g] = None
    /\ \A o \in Guests \ {g} : asked'[o] = asked[o] /\ order'[o] = order[o]
    /\ \/ asked'[g] = b /\ work'[g] = Asker(g, b) /\ order'[g] = order[g] /\ Mark("left", {})
       \/ /\ order[g].booking = None /\ order'[g] = [status |-> "draft", booking |-> b]
          /\ order[g].status \in {"none", "draft"} /\ asked'[g] = None /\ work'[g] = Idle
          /\ Mark("left", {})
       \/ order'[g] = order[g] /\ asked'[g] = None /\ work'[g] = Idle /\ Mark("left", {b})

LEMMA Inserts ==
    ASSUME TypeInv, LinkInv, NEW g \in Guests, Insert(g)
    PROVE  \E b \in Bookings : Inserted(g, b)
<1>0. g \in Handlers /\ work[g] \in Working /\ Fits(g, work[g]) /\ Knows(g)
    BY HandlerFits, GuestsAndStaff DEF LinkInv
<1>1. PICK b \in Bookings, kept \in BOOLEAN : InsertsRow(g, b, kept)
    BY InsertRow
<1>2. work[g].pc = "asked" /\ work[g].kind \in {"book", "preorder"} /\ waiting' = waiting
      /\ waiting[g] = None /\ asked[g] = None
    BY <1>0, InsertRow DEF Fits, AskKinds, Knows
<1>3. /\ booking[b].status = "none" /\ booking'[b].status = "draft"
      /\ \A c \in Bookings : c # b => booking'[c] = booking[c]
    BY <1>1 DEF InsertsRow, TypeInv
<1>4. \A q \in Handlers \ {g} : work'[q] = work[q]
    BY <1>0, <1>1 DEF InsertsRow, TypeInv
<1>5. CASE kept /\ work[g].kind = "book"
    <2>1. /\ asked' = [asked EXCEPT ![g] = b] /\ order' = order /\ Mark("left", {})
          /\ work' = [work EXCEPT ![g] = Asker(g, b)]
        BY <1>1, <1>5 DEF InsertsRow, Asker
    <2>2. /\ asked'[g] = b /\ work'[g] = Asker(g, b)
          /\ \A o \in Guests \ {g} : asked'[o] = asked[o] /\ order'[o] = order[o]
        BY <1>0, <2>1 DEF TypeInv
    <2> QED BY <1>0, <1>2, <1>3, <1>4, <2>1, <2>2 DEF Inserted
<1>6. CASE kept /\ work[g].kind = "preorder"
    <2>1. /\ order' = [order EXCEPT ![g].booking = b, ![g].status = IF @ = "none" THEN "draft" ELSE @]
          /\ order[g].booking = None /\ order[g].status \in {"none", "draft"}
          /\ asked' = asked /\ work' = [work EXCEPT ![g] = Idle] /\ Mark("left", {})
        BY <1>0, <1>1, <1>6 DEF InsertsRow, Knows, Attaches, Fits
    <2>2. PICK row \in {[order[g] EXCEPT !.booking = b, !.status = IF @ = "none" THEN "draft" ELSE @]} :
            order' = [order EXCEPT ![g] = row]
        BY <2>1
    <2>3. row = [status |-> "draft", booking |-> b]
        BY <2>1, <2>2 DEF TypeInv
    <2>4. order'[g] = row /\ work'[g] = Idle /\ \A o \in Guests \ {g} : order'[o] = order[o]
        BY <1>0, <2>1, <2>2 DEF TypeInv
    <2> QED BY <1>0, <1>2, <1>3, <1>4, <2>1, <2>3, <2>4 DEF Inserted
<1>7. CASE ~kept
    <2>1. asked' = asked /\ order' = order /\ work' = [work EXCEPT ![g] = Idle] /\ Mark("left", {b})
        BY <1>1, <1>7 DEF InsertsRow
    <2>2. work'[g] = Idle
        BY <1>0, <2>1 DEF TypeInv
    <2> QED BY <1>0, <1>2, <1>3, <1>4, <2>1, <2>2 DEF Inserted
<1> QED BY <1>2, <1>5, <1>6, <1>7

LEMMA LinkInsert ==
    ASSUME TypeInv, TypeInv', LinkInv, NEW g \in Guests, Insert(g)
    PROVE  LinkInv'
<1>0. PICK b \in Bookings : Inserted(g, b)
    BY Inserts
<1>1. /\ booking[b].status = "none" /\ b # None
      /\ g \in Handlers /\ \A q \in Handlers \ {g} : work'[q] = work[q]
      /\ \A o \in Guests : waiting'[o] = waiting[o]
      /\ \A o \in Guests \ {g} : asked'[o] = asked[o] /\ order'[o] = order[o]
      /\ waiting'[g] = None
      /\ \/ asked'[g] = b /\ order'[g] = order[g] /\ work'[g] = Asker(g, b)
         \/ /\ order[g].booking = None /\ order'[g] = [status |-> "draft", booking |-> b]
            /\ order[g].status \in {"none", "draft"} /\ asked'[g] = None /\ work'[g] = Idle
         \/ order'[g] = order[g] /\ asked'[g] = None /\ work'[g] = Idle
    BY <1>0 DEF Inserted
<1>1a. /\ work'[g].kind \in {"idle", "book"} /\ work'[g].pc \in {"idle", "asking"}
       /\ work'[g] = Idle => work'[g].b = None
       /\ work'[g] = Asker(g, b) => work'[g].b = b
    BY <1>1, IdleFits, AskerFits DEF Idle
<1>2. ASSUME NEW o \in Guests PROVE Knows(o)' /\ (~Stored(o)' => order'[o].booking = None)
    <2>1. CASE o = g
        BY <1>1, <1>1a, <2>1 DEF Knows, LinkInv, Stored
    <2>2. CASE o # g
        <3>1. work'[o] = work[o] /\ waiting'[o] = waiting[o] /\ asked'[o] = asked[o] /\ order'[o] = order[o]
            BY <1>1, <2>2, GuestsAndStaff
        <3> QED BY <3>1 DEF Knows, LinkInv, Stored
    <2> QED BY <2>1, <2>2
<1>3. ASSUME NEW h \in Handlers PROVE HasOrders(h)'
    <2>1. CASE h = g
        BY <1>1a, <2>1 DEF HasOrders
    <2>2. CASE h # g
        <3>1. work'[h] = work[h] /\ HasOrders(h)
            BY <1>1, <2>2 DEF LinkInv
        <3>2. work[h].kind = "confirm_order" => work[h].guest \in Guests
            BY DEF TypeInv, Fits, Confirming
        <3> QED BY <1>1, <3>1, <3>2 DEF HasOrders
    <2> QED BY <2>1, <2>2
<1>4. \A o \in Guests : ~Talks(o, b) /\ order[o].booking # b
    BY <1>1, GuestsAndStaff DEF TypeInv, Referenced, Made, Talks
<1>5. Apart'
    <2>1. Apart
        BY DEF LinkInv
    <2>2. \A o \in Guests, c \in Bookings : o # g /\ Talks(o, c)' => Talks(o, c) /\ c # b
        BY <1>1, <1>4, GuestsAndStaff DEF Talks
    <2>3. \A c \in Bookings : Talks(g, c)' => c = b /\ order'[g] = order[g]
        BY <1>1, <1>1a DEF Talks
    <2>4. \A o \in Guests : order'[o].booking = order[o].booking
                            \/ (o = g /\ order'[o].booking = b /\ order'[o] # order[o])
        BY <1>1, <1>4
    <2>5. \A o \in Guests, c, d \in Bookings : Talks(o, c)' /\ Talks(o, d)' => c = d
        BY <2>1, <2>2, <2>3 DEF Apart
    <2>6. ASSUME NEW p \in Guests, NEW o \in Guests, NEW c \in Bookings, Talks(p, c)'
          PROVE  order'[o].booking # c /\ (Talks(o, c)' => o = p)
        <3>1. CASE p = g
            BY <1>4, <2>2, <2>3, <2>4, <2>6, <3>1
        <3>2. CASE p # g
            <4>1. Talks(p, c) /\ c # b
                BY <2>2, <2>6, <3>2
            <4> QED BY <2>1, <2>2, <2>3, <2>4, <4>1 DEF Apart
        <3> QED BY <3>1, <3>2
    <2>7. \A p, o \in Guests :
             order'[p].booking # None /\ order'[o].booking = order'[p].booking => o = p
        BY <1>4, <2>1, <2>4 DEF Apart
    <2> QED BY <2>5, <2>6, <2>7 DEF Apart
<1> QED BY <1>2, <1>3, <1>5 DEF LinkInv

\* The question is written to Redis, and the dialog moves.
LEMMA LinkDialog ==
    ASSUME TypeInv, TypeInv', LinkInv, NEW g \in Guests,
           AskGuest(g) \/ RowMoves(g) \/ CacheMoves(g) \/ Recover(g)
    PROVE  LinkInv'
<1>0. g \in Handlers /\ work[g] \in Working /\ Fits(g, work[g]) /\ Knows(g)
    BY HandlerFits, GuestsAndStaff DEF LinkInv
<1>1. CASE AskGuest(g)
    <2>1. /\ Leave(g) /\ work'[g] = Idle /\ \A q \in Handlers \ {g} : work'[q] = work[q]
          /\ waiting' = [waiting EXCEPT ![g] = work[g].b] /\ UNCHANGED <<order, asked>>
          /\ work[g].kind = "book"
        BY <1>0, <1>1 DEF AskGuest, Leave, TypeInv, Fits
    <2>2. \A o \in Guests, b \in Bookings : Talks(o, b)' => Talks(o, b)
        BY <2>1, IdleFits, GuestsAndStaff DEF Talks, TalkKinds, TypeInv
    <2>3. Hushed(g)
        BY <2>1, <2>2 DEF Hushed, TypeInv
    <2>4. Shape(g)
        BY <2>1, <2>3 DEF Shape
    <2> QED BY <1>0, <2>1, <2>4, LinkLeave
<1>2. CASE RowMoves(g) \/ CacheMoves(g) \/ Recover(g)
    <2>1. /\ UNCHANGED <<order, work>> /\ (waiting[g] # None \/ asked[g] # None)
          /\ \A q \in Guests : asked'[q] \in {asked[q], None} /\ waiting'[q] \in {waiting[q], asked[q], None}
        BY <1>2 DEF RowMoves, CacheMoves, Recover, TypeInv
    <2>2. Hushed(g)
        BY <1>0, <2>1, Hushes
    <2>3. Shape(g)
        BY <2>1, <2>2 DEF Shape
    <2>4. Knows(g)' /\ HasOrders(g)'
        BY <1>0, <2>1 DEF Knows, LinkInv, HasOrders, Stored
    <2> QED BY <1>0, <2>3, <2>4, LinkKept
<1> QED BY <1>1, <1>2

LEMMA LinkNext == TypeInv /\ LinkInv /\ [Next]_vars => LinkInv'
<1> SUFFICES ASSUME TypeInv, LinkInv, [Next]_vars PROVE LinkInv'
    OBVIOUS
<1>0. TypeInv'
    BY TypeNext
<1>1. CASE UNCHANGED vars
    BY <1>1 DEF vars, rows, LinkInv, Knows, HasOrders, Apart, Talks, Stored
<1>2. ASSUME NEW g \in Guests,
             \/ \E kind \in AskKinds, hall \in Halls : Ask(g, kind, hall)
             \/ Insert(g) \/ PlaceOrder(g) \/ AskGuest(g) \/ RowMoves(g) \/ CacheMoves(g) \/ Recover(g)
             \/ \E kind \in {"confirm_booking", "cancel_booking"} : Answer(g, kind)
             \/ \E kind \in {"confirm_order", "cancel_order"} : TakeOrder(g, g, kind)
             \/ CancelBooking(g) \/ Hold(g) \/ CancelOrder(g)
      PROVE  LinkInv'
    BY <1>0, <1>2, GuestsAndStaff, LinkAsk, LinkInsert, LinkDialog, LinkTakeOrder, LinkCancel
<1>3. ASSUME NEW s \in Staff,
             \/ \E g \in Guests : TakeOrder(s, g, "confirm_order")
             \/ \E b \in Bookings, hall \in Halls, status \in Written : Patch(s, b, hall, status)
             \/ SavePatch(s)
             \/ \E g \in Guests, kind \in PanelKinds : OpenOrder(s, g, kind)
             \/ SaveOrder(s)
      PROVE  LinkInv'
    BY <1>0, <1>3, GuestsAndStaff, LinkTakeOrder, LinkPanel
<1>4. ASSUME NEW h \in Handlers, ReadBooking(h) \/ Check(h) \/ Confirm(h) PROVE LinkInv'
    BY <1>0, <1>4, LinkRead, LinkRefuse, LinkConfirm
<1>5. ASSUME NEW h \in Handlers, Abort(h) PROVE LinkInv'
    <2>1. Leave(h) /\ Hushed(h) /\ order' = order
        BY <1>5, LeaveHushes DEF Abort, rows
    <2>2. Shape(h)
        BY <2>1 DEF Leave, Shape, TypeInv
    <2> QED BY <1>0, <2>1, <2>2, LinkLeave
<1> QED BY <1>1, <1>2, <1>3, <1>4, <1>5 DEF Next

-----------------------------------------------------------------------------
(* What a step does to a booking *)

\* The marks of one booking, after.
MarksKept(b) == \A m \in marks[b] : m \in marks'[b] \/ "staff" \in marks'[b]

LEMMA MarkKeeps ==
    ASSUME TypeInv, NEW b \in Bookings, NEW why, NEW bs, Mark(why, bs) \/ marks' = Marked(why, bs)
    PROVE  MarksKept(b) /\ (b \in bs => why \in marks'[b] \/ "staff" \in marks'[b])
           /\ (b \notin bs => marks'[b] = marks[b])
BY DEF Mark, Marked, MarksKept, TypeInv

\* Its status changes, and not by the staff: it is confirmed or cancelled by
\* the guest who is asked about it, or with the order it is in.
Decided(b) ==
    \/ \E g \in Guests :
          /\ work[g].kind = "confirm_booking" /\ work[g].pc = "ready" /\ work[g].b = b
          /\ booking'[b].status = "confirmed" /\ work'[g] = Idle
    \/ \E h \in Handlers, g \in Guests :
          /\ work[h].kind = "confirm_order" /\ work[h].pc = "ready" /\ work[h].b = b
          /\ order[g].booking = b /\ Stored(g) /\ ~Locked(g)
          /\ booking'[b].status = "confirmed"
    \/ \E g \in Guests :
          /\ work[g].kind = "cancel_booking" /\ work[g].pc = "ready" /\ work[g].b = b
          /\ booking'[b].status = "cancelled" /\ work'[g] = Idle
    \/ \E g \in Guests :
          /\ work[g].pc = "held" /\ work[g].status = "draft" /\ work[g].b = b
          /\ order[g].booking = b /\ Stored(g)
          /\ booking'[b].status = "cancelled" /\ work'[g] = Idle

\* All that can happen to a booking that is there.
Lasts(b) ==
    /\ MarksKept(b)
    /\ booking[b].status = "cancelled" /\ booking'[b].status # "cancelled"
          => marks'[b] \cap {"staff", "revived"} # {}
    /\ booking'[b].hall = booking[b].hall \/ "staff" \in marks'[b]
    /\ booking'[b].status = booking[b].status \/ "staff" \in marks'[b] \/ Decided(b)

LEMMA LastsConfirm ==
    ASSUME TypeInv, LinkInv, NEW b \in Bookings, NEW h \in Handlers, Confirm(h)
    PROVE  Lasts(b)
<1>0. work[h] \in Working /\ Fits(h, work[h]) /\ HasOrders(h) /\ work'[h] = Idle
    BY HandlerFits DEF LinkInv, Confirm, Leave, TypeInv
<1>1. MarksKept(b)
    BY MarkKeeps DEF Confirm
<1>2. CASE work[h].b # b
    <2>1. booking'[b] = booking[b]
        <3>1. CASE work[h].b = None
            BY <3>1 DEF Confirm
        <3>2. CASE work[h].b # None
            BY ZenonT(60), <1>0, <1>2, <3>2, StatusFits DEF Confirm, Working, Written
        <3> QED BY <3>1, <3>2
    <2> QED BY <1>1, <2>1 DEF Lasts
<1>3. CASE work[h].b = b
    <2>1. booking' = [booking EXCEPT ![b].status = "confirmed"] /\ work[h].pc = "ready"
        BY <1>3 DEF Confirm
    <2>2. booking'[b].status = "confirmed" /\ booking'[b].hall = booking[b].hall
        BY <2>1, StatusFits DEF Written
    <2>2a. booking[b].status = "cancelled" => marks'[b] \cap {"staff", "revived"} # {}
        BY <1>3, MarkKeeps DEF Confirm
    <2>3. CASE work[h].kind = "confirm_order"
        <3>1. PICK g \in Guests : g = work[h].guest
            BY <1>0, <2>3 DEF Fits, Confirming
        <3>2. Stored(g) /\ ~Locked(g)
            BY <2>3, <3>1 DEF Confirm
        <3>3. order[g].booking = b
            BY <1>0, <1>3, <2>3, <3>1, <3>2 DEF HasOrders, Stored
        <3>4. Decided(b)
            BY <1>3, <2>1, <2>2, <2>3, <3>2, <3>3 DEF Decided
        <3> QED BY <1>1, <2>2, <2>2a, <3>4 DEF Lasts
    <2>4. CASE work[h].kind = "confirm_booking"
        <3>1. h \in Guests
            BY <1>0, <2>4 DEF Fits
        <3>2. Decided(b)
            BY <1>0, <1>3, <2>1, <2>2, <2>4, <3>1 DEF Decided
        <3> QED BY <1>1, <2>2, <2>2a, <3>2 DEF Lasts
    <2> QED BY <2>3, <2>4 DEF Confirm
<1> QED BY <1>2, <1>3

LEMMA LastsCancel ==
    ASSUME TypeInv, LinkInv, NEW b \in Bookings, NEW g \in Guests, CancelBooking(g) \/ CancelOrder(g)
    PROVE  Lasts(b)
<1>0. g \in Handlers /\ work[g] \in Working /\ Fits(g, work[g]) /\ Knows(g) /\ work'[g] = Idle
    BY HandlerFits, GuestsAndStaff DEF LinkInv, CancelBooking, CancelOrder, Leave, TypeInv
<1>1. marks' = marks /\ MarksKept(b)
    BY DEF CancelBooking, CancelOrder, history, MarksKept
<1>2. CASE CancelBooking(g)
    <2>1. /\ work[g].b \in Bookings /\ booking' = [booking EXCEPT ![work[g].b].status = "cancelled"]
          /\ work[g].kind = "cancel_booking" /\ work[g].pc = "ready"
        BY <1>0, <1>2 DEF CancelBooking, Working, Fits
    <2>2. CASE work[g].b = b
        BY <1>0, <1>1, <2>1, <2>2, StatusFits DEF Lasts, Decided, Written
    <2>3. CASE work[g].b # b
        BY <1>1, <2>1, <2>3, StatusFits DEF Lasts, Written
    <2> QED BY <2>2, <2>3
<1>3. CASE CancelOrder(g) /\ work[g].status # "draft"
    BY <1>1, <1>3 DEF CancelOrder, Lasts
<1>4. CASE CancelOrder(g) /\ work[g].status = "draft"
    <2>1. /\ work[g].b \in Bookings /\ booking' = [booking EXCEPT ![work[g].b].status = "cancelled"]
          /\ work[g].pc = "held" /\ Stored(g) /\ order[g].booking = work[g].b
        BY <1>0, <1>4 DEF CancelOrder, Working, Fits, Knows, Stored
    <2>2. CASE work[g].b = b
        BY <1>0, <1>1, <1>4, <2>1, <2>2, StatusFits DEF Lasts, Decided, Written
    <2>3. CASE work[g].b # b
        BY <1>1, <2>1, <2>3, StatusFits DEF Lasts, Written
    <2> QED BY <2>2, <2>3
<1> QED BY <1>2, <1>3, <1>4

LEMMA LastsOther ==
    ASSUME TypeInv, LinkInv, NEW b \in Bookings, Made(b)
    PROVE  /\ \A g \in Guests : Insert(g) => Lasts(b) /\ booking'[b] = booking[b]
           /\ \A g \in Guests : RowMoves(g) \/ CacheMoves(g) => Lasts(b) /\ booking' = booking
           /\ \A h \in Handlers : Refuse(h) \/ Abort(h) => Lasts(b) /\ booking' = booking
           /\ \A s \in Staff : SavePatch(s) => Lasts(b)
           /\ \A s \in Staff : SaveOrder(s) => Lasts(b) /\ booking' = booking
<1>1. ASSUME NEW g \in Guests, Insert(g) PROVE Lasts(b) /\ booking'[b] = booking[b]
    <2>1. PICK c \in Bookings : Inserted(g, c)
        BY <1>1, Inserts
    <2>2. booking'[b] = booking[b]
        BY <2>1 DEF Inserted, Made
    <2>3. MarksKept(b)
        BY <2>1, MarkKeeps DEF Inserted
    <2> QED BY <2>2, <2>3 DEF Lasts
<1>2. ASSUME NEW h \in Handlers, Refuse(h) PROVE Lasts(b) /\ booking' = booking
    BY <1>2, MarkKeeps DEF Refuse, Lasts
<1>2a. ASSUME NEW h \in Handlers, Abort(h) PROVE Lasts(b) /\ booking' = booking
    BY <1>2a, MarkKeeps DEF Abort, Lasts, rows
<1>2b. ASSUME NEW g \in Guests, RowMoves(g) \/ CacheMoves(g) PROVE Lasts(b) /\ booking' = booking
    BY <1>2b, MarkKeeps DEF RowMoves, CacheMoves, Lasts
<1>3. ASSUME NEW s \in Staff, SavePatch(s) PROVE Lasts(b)
    <2>1. \A c \in Bookings : c # work[s].b => booking'[c] = booking[c]
        BY <1>3, PatchedFits
    <2>2. Mark("staff", {work[s].b})
        BY <1>3 DEF SavePatch
    <2>3. MarksKept(b) /\ (b = work[s].b => "staff" \in marks'[b])
        BY <2>2, MarkKeeps
    <2> QED BY <2>1, <2>3 DEF Lasts
<1>4. ASSUME NEW s \in Staff, SaveOrder(s) PROVE Lasts(b) /\ booking' = booking
    BY <1>4, MarkKeeps DEF SaveOrder, Lasts
<1> QED BY <1>1, <1>2, <1>2a, <1>2b, <1>3, <1>4

\* Every other step leaves the bookings and their marks alone.
Quiet == booking' = booking /\ marks' = marks

LEMMA Lasting ==
    ASSUME TypeInv, LinkInv, [Next]_vars, NEW b \in Bookings, Made(b)
    PROVE  Lasts(b)
<1>1. Quiet => Lasts(b)
    BY DEF Quiet, Lasts, MarksKept
<1>2. CASE UNCHANGED vars
    BY <1>1, <1>2 DEF vars, rows, history, Quiet
<1>3. ASSUME NEW g \in Guests,
             \/ \E kind \in AskKinds, hall \in Halls : Ask(g, kind, hall)
             \/ Insert(g) \/ PlaceOrder(g) \/ AskGuest(g) \/ RowMoves(g) \/ CacheMoves(g) \/ Recover(g)
             \/ \E kind \in {"confirm_booking", "cancel_booking"} : Answer(g, kind)
             \/ \E kind \in {"confirm_order", "cancel_order"} : TakeOrder(g, g, kind)
             \/ CancelBooking(g) \/ Hold(g) \/ CancelOrder(g)
      PROVE  Lasts(b)
    <2>1. CASE Insert(g) \/ RowMoves(g) \/ CacheMoves(g) \/ CancelBooking(g) \/ CancelOrder(g)
        BY <2>1, LastsOther, LastsCancel
    <2>2. CASE ~(Insert(g) \/ RowMoves(g) \/ CacheMoves(g) \/ CancelBooking(g) \/ CancelOrder(g))
        BY <1>1, <1>3, <2>2 DEF Ask, PlaceOrder, AskGuest, Recover, Answer, TakeOrder, Hold, Quiet, rows, history
    <2> QED BY <2>1, <2>2
<1>4. ASSUME NEW s \in Staff,
             \/ \E g \in Guests : TakeOrder(s, g, "confirm_order")
             \/ \E c \in Bookings, hall \in Halls, status \in Written : Patch(s, c, hall, status)
             \/ SavePatch(s)
             \/ \E g \in Guests, kind \in PanelKinds : OpenOrder(s, g, kind)
             \/ SaveOrder(s)
      PROVE  Lasts(b)
    <2>1. CASE SavePatch(s) \/ SaveOrder(s)
        BY <2>1, LastsOther
    <2>2. CASE ~(SavePatch(s) \/ SaveOrder(s))
        BY <1>1, <1>4, <2>2 DEF TakeOrder, Patch, OpenOrder, Quiet, rows, history
    <2> QED BY <2>1, <2>2
<1>5. ASSUME NEW h \in Handlers, ReadBooking(h) \/ Check(h) \/ Confirm(h) \/ Abort(h)
      PROVE  Lasts(b)
    <2>1. CASE Refuse(h) \/ Abort(h) \/ Confirm(h)
        BY <2>1, LastsOther, LastsConfirm
    <2>2. CASE ~(Refuse(h) \/ Abort(h) \/ Confirm(h))
        BY <1>1, <1>5, <2>2, ReadGoes DEF Quiet, rows, history
    <2> QED BY <2>1, <2>2
<1> QED BY <1>2, <1>3, <1>4, <1>5 DEF Next

-----------------------------------------------------------------------------
(* A confirmed booking stays *)

\* How a handler gets to where it acts on a booking it has read.
LEMMA Enters ==
    ASSUME TypeInv, [Next]_vars, NEW h \in Handlers, work'[h] # work[h]
    PROVE  \/ h \in Guests /\ Hold(h)
           \/ (ReadBooking(h) \/ Check(h)) /\ ~Refuse(h)
           \/ work'[h].pc \in {"idle", "asked", "asking", "order"}
           \/ work'[h].kind \in {"patch"} \cup PanelKinds
<1>0. ASSUME NEW q \in Handlers, Leave(q) PROVE work'[h].pc = "idle"
    BY <1>0 DEF Leave, TypeInv, Idle
<1>1. ASSUME NEW q \in Handlers, NEW w, Moves(q, w) PROVE work'[h] = w
    BY <1>1, MoveShape
<1>2. ASSUME NEW g \in Guests,
             \/ \E kind \in AskKinds, hall \in Halls : Ask(g, kind, hall)
             \/ Insert(g) \/ PlaceOrder(g) \/ AskGuest(g) \/ RowMoves(g) \/ CacheMoves(g) \/ Recover(g)
             \/ \E kind \in {"confirm_booking", "cancel_booking"} : Answer(g, kind)
             \/ \E kind \in {"confirm_order", "cancel_order"} : TakeOrder(g, g, kind)
             \/ CancelBooking(g) \/ CancelOrder(g)
      PROVE  work'[h].pc \in {"idle", "asked", "asking", "order"}
    <2>1. CASE AskGuest(g) \/ CancelBooking(g) \/ CancelOrder(g)
        BY <1>0, <2>1, GuestsAndStaff DEF AskGuest, CancelBooking, CancelOrder
    <2>1a. CASE Insert(g)
        <3>1. PICK b \in Bookings, kept \in BOOLEAN : InsertsRow(g, b, kept)
            BY <2>1a, InsertRow
        <3>2. Moves(g, Idle) \/ Moves(g, Asker(g, b))
            BY <3>1 DEF InsertsRow, Moves, Asker
        <3>3. work'[h] = Idle \/ work'[h] = Asker(g, b)
            BY <1>1, <3>2, GuestsAndStaff
        <3> QED BY <3>3, AskerFits DEF Idle
    <2>1b. CASE RowMoves(g) \/ CacheMoves(g) \/ Recover(g)
        BY <2>1b DEF RowMoves, CacheMoves, Recover
    <2>2. ASSUME NEW kind \in AskKinds, NEW hall \in Halls, Ask(g, kind, hall)
          PROVE  work'[h].pc = "asked"
        <3>1. work'[h] = [Idle EXCEPT !.kind = kind, !.pc = "asked", !.guest = g, !.hall = hall,
                                      !.status = order[g].status]
            BY <1>1, <2>2, GuestsAndStaff DEF Ask, Start, Moves
        <3> QED BY <3>1 DEF Idle
    <2>3. ASSUME NEW kind \in {"confirm_booking", "cancel_booking"}, Answer(g, kind)
          PROVE  work'[h].pc = "order"
        <3>1. work'[h] = [Idle EXCEPT !.kind = kind, !.pc = "order", !.guest = g, !.b = waiting[g]]
            BY <1>1, <2>3, GuestsAndStaff DEF Answer, Start, Moves
        <3> QED BY <3>1 DEF Idle
    <2>4. ASSUME NEW kind \in {"confirm_order", "cancel_order"}, TakeOrder(g, g, kind)
          PROVE  work'[h].pc = "order"
        <3>1. work'[h] = [Idle EXCEPT !.kind = kind, !.pc = "order", !.guest = g, !.b = order[g].booking]
            BY <1>1, <2>4, GuestsAndStaff DEF TakeOrder, Start, Moves
        <3> QED BY <3>1 DEF Idle
    <2> QED BY <1>2, <2>1, <2>1a, <2>1b, <2>2, <2>3, <2>4 DEF PlaceOrder
<1>3. ASSUME NEW g \in Guests, Hold(g) PROVE h \in Guests /\ Hold(h)
    <2>1. h = g
        BY <1>3, GuestsAndStaff DEF Hold, TypeInv
    <2> QED BY <1>3, <2>1
<1>4. ASSUME NEW s \in Staff,
             \/ \E g \in Guests : TakeOrder(s, g, "confirm_order")
             \/ \E b \in Bookings, hall \in Halls, status \in Written : Patch(s, b, hall, status)
             \/ SavePatch(s)
             \/ \E g \in Guests, kind \in PanelKinds : OpenOrder(s, g, kind)
             \/ SaveOrder(s)
      PROVE  work'[h].pc \in {"idle", "order"} \/ work'[h].kind \in {"patch"} \cup PanelKinds
    <2>1. CASE SavePatch(s) \/ SaveOrder(s)
        BY <1>0, <2>1, GuestsAndStaff DEF SavePatch, SaveOrder
    <2>2. ASSUME NEW g \in Guests, TakeOrder(s, g, "confirm_order") PROVE work'[h].pc = "order"
        <3>1. work'[h] = [Idle EXCEPT !.kind = "confirm_order", !.pc = "order", !.guest = g,
                                      !.b = order[g].booking]
            BY <1>1, <2>2, GuestsAndStaff DEF TakeOrder, Start, Moves
        <3> QED BY <3>1 DEF Idle
    <2>3. ASSUME NEW b \in Bookings, NEW hall \in Halls, NEW status \in Written, Patch(s, b, hall, status)
          PROVE  work'[h].kind = "patch"
        <3>1. PICK dirty : work'[h] = [Idle EXCEPT !.kind = "patch", !.pc = "booking", !.b = b,
                                             !.hall = hall, !.status = status, !.dirty = dirty]
            BY <1>1, <2>3, GuestsAndStaff DEF Patch, Start, Moves
        <3> QED BY <3>1 DEF Idle
    <2>4. ASSUME NEW g \in Guests, NEW kind \in PanelKinds, OpenOrder(s, g, kind)
          PROVE  work'[h].kind = kind
        <3>1. work'[h] = [Idle EXCEPT !.kind = kind, !.pc = "ready", !.guest = g]
            BY <1>1, <2>4, GuestsAndStaff DEF OpenOrder, Start, Moves
        <3> QED BY <3>1 DEF Idle
    <2> QED BY <1>4, <2>1, <2>2, <2>3, <2>4
<1>5. ASSUME NEW q \in Handlers, ReadBooking(q) \/ Check(q), ~Refuse(q)
      PROVE  (ReadBooking(h) \/ Check(h)) /\ ~Refuse(h)
    <2>1. h = q
        BY <1>5, ReadGoes
    <2> QED BY <1>5, <2>1
<1>6. ASSUME NEW q \in Handlers, Refuse(q) \/ Confirm(q) \/ Abort(q) PROVE work'[h].pc = "idle"
    BY <1>0, <1>6 DEF Refuse, Confirm, Abort
<1>7. CASE UNCHANGED vars
    BY <1>7 DEF vars
<1> QED BY <1>2, <1>3, <1>4, <1>5, <1>6, <1>7 DEF Next

\* What was read of a booking is still so, but for the staff.
Held(g) ==
    LET b == work[g].b IN
    /\ work[g].pc = "held" /\ b # None =>
          (work[g].status = "draft" <=> booking[b].status = "draft") \/ "staff" \in marks[b]
    /\ work[g].kind = "cancel_booking" /\ work[g].pc = "ready" =>
          booking[b].status # "confirmed" \/ "staff" \in marks[b]
HeldInv == \A g \in Guests : Held(g)

LEMMA HeldInit == Init => HeldInv
<1>1. ASSUME Init, NEW g \in Guests PROVE work[g].pc = "idle"
    BY <1>1, GuestsAndStaff DEF Init, Idle
<1> QED BY <1>1 DEF HeldInv, Held

\* While it waits, nobody else decides the booking.
LEMMA HeldStays ==
    ASSUME TypeInv, LinkInv, HeldInv, [Next]_vars, NEW g \in Guests, work'[g] = work[g]
    PROVE  Held(g)'
<1>0. work[g] \in Working /\ Fits(g, work[g]) /\ Knows(g) /\ Held(g) /\ Apart
    BY HandlerFits, GuestsAndStaff DEF LinkInv, HeldInv
<1>1. CASE work[g].pc = "held" /\ work[g].b # None
    <2>1. PICK b \in Bookings : b = work[g].b /\ Made(b)
        BY <1>0, <1>1, HandlerFits, GuestsAndStaff DEF Working
    <2>2. work[g].kind = "cancel_order" /\ order[g].booking = b /\ Locked(g)
        BY <1>0, <1>1, <2>1, GuestsAndStaff DEF Fits, Knows, Stored, Locked
    <2>3. Lasts(b)
        BY <2>1, Lasting
    <2>4. ~Decided(b)
        <3>1. \A o \in Guests : ~Talks(o, b)
            BY <1>0, <2>1, <2>2 DEF Apart
        <3>2. \A o \in Guests : order[o].booking = b => o = g
            BY <1>0, <2>1, <2>2 DEF Apart
        <3>3. work'[g] # Idle
            BY <1>1 DEF Idle
        <3> QED BY <2>1, <2>2, <3>1, <3>2, <3>3 DEF Decided, Talks, TalkKinds
    <2>5. (work[g].status = "draft" <=> booking'[b].status = "draft") \/ "staff" \in marks'[b]
        BY <1>0, <1>1, <2>1, <2>3, <2>4 DEF Held, Lasts, MarksKept
    <2> QED BY <1>1, <2>1, <2>2, <2>5 DEF Held
<1>2. CASE work[g].kind = "cancel_booking" /\ work[g].pc = "ready"
    <2>1. PICK b \in Bookings : b = work[g].b /\ Made(b) /\ Talks(g, b)
        BY <1>0, <1>2, HandlerFits, GuestsAndStaff DEF Working, Fits, Talks, TalkKinds
    <2>2. Lasts(b)
        BY <2>1, Lasting
    <2>3. Decided(b) => booking'[b].status = "cancelled"
        <3>1. \A o \in Guests : Talks(o, b) => o = g
            BY <1>0, <2>1 DEF Apart
        <3>2. \A o \in Guests : order[o].booking # b
            BY <1>0, <2>1 DEF Apart
        <3> QED BY <1>2, <2>1, <3>1, <3>2 DEF Decided, Talks, TalkKinds
    <2>4. booking'[b].status # "confirmed" \/ "staff" \in marks'[b]
        BY <1>0, <1>2, <2>1, <2>2, <2>3 DEF Held, Lasts, MarksKept
    <2> QED BY <1>2, <2>1, <2>4 DEF Held
<1> QED BY <1>1, <1>2 DEF Held

LEMMA HeldNext ==
    ASSUME TypeInv, LinkInv, HeldInv, [Next]_vars
    PROVE  HeldInv'
<1> SUFFICES ASSUME NEW g \in Guests PROVE Held(g)'
    BY DEF HeldInv
<1>0. g \in Handlers /\ work[g] \in Working /\ Fits(g, work[g])
    BY HandlerFits, GuestsAndStaff
<1>0a. TypeInv'
    BY TypeNext
<1>1. CASE work'[g] = work[g]
    BY <1>1, HeldStays
<1>2. CASE Hold(g)
    <2>1. /\ work' = [work EXCEPT ![g].pc = "held",
                                  ![g].status = IF CancelsBooking(work[g].b) THEN "draft" ELSE "none"]
          /\ booking' = booking /\ work[g].kind = "cancel_order"
        BY <1>2 DEF Hold, Holds, rows
    <2>2. /\ work'[g].pc = "held" /\ work'[g].kind = "cancel_order" /\ work'[g].b = work[g].b
          /\ work'[g].status = "draft" <=> CancelsBooking(work[g].b)
        BY <1>0, <2>1 DEF Working, TypeInv
    <2> QED BY <2>1, <2>2 DEF Held, CancelsBooking
<1>3. CASE (ReadBooking(g) \/ Check(g)) /\ ~Refuse(g)
    <2>1. /\ UNCHANGED <<rows, history>> /\ work'[g].kind = work[g].kind /\ work'[g].b = work[g].b
          /\ work'[g].pc \in {"booking", "ready"}
          /\ work'[g].kind = "cancel_booking" => booking[work[g].b].status = "draft"
        BY <1>0, <1>3, ReadGoes DEF Fits, Confirming
    <2> QED BY <2>1 DEF Held, rows
<1>4. CASE work'[g].pc \in {"idle", "asked", "asking", "order"}
    BY <1>4 DEF Held
<1>5. CASE work'[g].kind \in {"patch"} \cup PanelKinds
    <2>1. Fits(g, work'[g])
        BY <1>0, <1>0a DEF TypeInv, Fits
    <2> QED BY <1>5, <2>1 DEF Held, Fits, PanelKinds
<1> QED BY <1>0, <1>1, <1>2, <1>3, <1>4, <1>5, Enters

\* A booking stops being confirmed by the panel's patch of it alone.
LEMMA StaysConfirmed ==
    ASSUME TypeInv, LinkInv, HeldInv, [Next]_vars, NEW b \in Bookings,
           booking[b].status = "confirmed", "staff" \notin marks[b], booking'[b].status # "confirmed"
    PROVE  \E s \in Staff : SavePatch(s) /\ work[s].b = b
<1>1. Made(b) /\ Apart
    BY DEF Made, LinkInv
<1>2. ASSUME NEW g \in Guests, CancelBooking(g) PROVE FALSE
    <2>0. work[g] \in Working /\ Fits(g, work[g])
        BY HandlerFits, GuestsAndStaff
    <2>1. work[g].b \in Bookings /\ booking' = [booking EXCEPT ![work[g].b].status = "cancelled"]
        BY <1>2, <2>0 DEF CancelBooking, Working, Fits
    <2>2. work[g].b = b
        BY <2>1, StatusFits DEF Written
    <2> QED BY <1>2, <2>2 DEF CancelBooking, HeldInv, Held
<1>3. ASSUME NEW g \in Guests, CancelOrder(g) PROVE FALSE
    <2>0. work[g] \in Working /\ Fits(g, work[g])
        BY HandlerFits, GuestsAndStaff
    <2>1. /\ work[g].b \in Bookings /\ booking' = [booking EXCEPT ![work[g].b].status = "cancelled"]
          /\ work[g].status = "draft" /\ work[g].pc = "held"
        BY <1>3, <2>0 DEF CancelOrder, Working, Fits
    <2>2. work[g].b = b
        BY <2>1, StatusFits DEF Written
    <2> QED BY <2>1, <2>2 DEF HeldInv, Held
<1>4. ASSUME NEW h \in Handlers, Confirm(h) PROVE FALSE
    <2>0. work[h] \in Working
        BY HandlerFits
    <2>1. CASE work[h].b = None
        BY <1>4, <2>1 DEF Confirm
    <2>2. CASE work[h].b # None
        <3>1. work[h].b \in Bookings /\ booking' = [booking EXCEPT ![work[h].b].status = "confirmed"]
            BY <1>4, <2>0, <2>2 DEF Confirm, Working
        <3> QED BY <3>1, StatusFits DEF Written
    <2> QED BY <2>1, <2>2
<1>5. ASSUME NEW g \in Guests, Insert(g) PROVE FALSE
    BY <1>1, <1>5, LastsOther
<1>6. ASSUME NEW s \in Staff, SavePatch(s) PROVE work[s].b = b
    BY <1>6, PatchedFits
<1>7. booking' # booking
    OBVIOUS
<1>8. ASSUME NEW h \in Handlers, ReadBooking(h) \/ Check(h) \/ Abort(h) PROVE FALSE
    BY <1>7, <1>8, ReadGoes DEF Refuse, Abort, rows
<1>9. ~UNCHANGED vars
    BY <1>7 DEF vars, rows
<1>10. \A g \in Guests :
          /\ \A kind \in AskKinds, hall \in Halls : ~Ask(g, kind, hall)
          /\ ~PlaceOrder(g) /\ ~Hold(g) /\ ~AskGuest(g)
          /\ ~RowMoves(g) /\ ~CacheMoves(g) /\ ~Recover(g)
          /\ \A kind \in {"confirm_booking", "cancel_booking"} : ~Answer(g, kind)
          /\ \A h \in Handlers, kind \in {"confirm_order", "cancel_order"} : ~TakeOrder(h, g, kind)
    BY <1>7 DEF Ask, PlaceOrder, Hold, AskGuest, RowMoves, CacheMoves, Recover, Answer, TakeOrder, rows
<1>11. \A s \in Staff :
          /\ \A c \in Bookings, hall \in Halls, status \in Written : ~Patch(s, c, hall, status)
          /\ \A g \in Guests, kind \in PanelKinds : ~OpenOrder(s, g, kind)
          /\ ~SaveOrder(s)
    BY <1>7 DEF Patch, OpenOrder, SaveOrder, rows
<1> QED BY <1>2, <1>3, <1>4, <1>5, <1>6, <1>8, <1>9, <1>10, <1>11, GuestsAndStaff DEF Next

\* ConfirmedStays: a guest's refusal, and the cancellation of an order, never
\* hit a booking that was confirmed meanwhile, because the order's row is
\* locked before its booking is read and a guest's messages are handled one at
\* a time.
THEOREM ConfirmedBookingsStay == Spec => ConfirmedStays
<1>1. ASSUME TypeInv, LinkInv, HeldInv, [Next]_vars
      PROVE  [\A b \in Bookings :
                  /\ booking[b].status = "confirmed" /\ "staff" \notin marks[b]
                  /\ booking'[b].status # "confirmed"
                  => \E s \in Staff : work[s].kind = "patch" /\ work[s].b = b /\ work'[s] = Idle]_vars
    <2> SUFFICES ASSUME NEW b \in Bookings, booking[b].status = "confirmed", "staff" \notin marks[b],
                        booking'[b].status # "confirmed"
                 PROVE  \E s \in Staff : work[s].kind = "patch" /\ work[s].b = b /\ work'[s] = Idle
        OBVIOUS
    <2>1. PICK s \in Staff : SavePatch(s) /\ work[s].b = b
        BY <1>1, StaysConfirmed
    <2>2. work[s].kind = "patch" /\ work'[s] = Idle
        BY <1>1, <2>1, GuestsAndStaff DEF SavePatch, Leave, TypeInv
    <2> QED BY <2>1, <2>2
<1>2. TypeInv /\ LinkInv /\ HeldInv /\ [Next]_vars => HeldInv'
    BY HeldNext
<1> QED BY <1>1, <1>2, TypeInit, TypeNext, LinkInit, LinkNext, HeldInit, PTL DEF Spec, ConfirmedStays

-----------------------------------------------------------------------------
(* One VIP table *)

Clean(b) == marks[b] \cap {"staff", "revived"} = {}

\* Handler h is sure that it may confirm b.
Ready(h, b) == work[h].kind \in Confirming /\ work[h].pc = "ready" /\ work[h].b = b

\* It has the VIP table, or is about to.
Has(b) ==
    /\ booking[b].hall = "vip" /\ booking[b].status # "cancelled" /\ Clean(b)
    /\ booking[b].status = "confirmed" \/ \E h \in Handlers : Ready(h, b)

\* The hall in which a handler looks for a free table is that of its booking.
Looks(h) ==
    work[h].kind \in Confirming /\ work[h].pc = "booking" /\ "staff" \notin marks[work[h].b]
    => work[h].hall = booking[work[h].b].hall

SlotInv ==
    /\ \A b, c \in Bookings : Has(b) /\ Has(c) => b = c
    /\ \A h \in Handlers : Looks(h)

LEMMA SlotInit == Init => SlotInv
<1> SUFFICES ASSUME Init PROVE SlotInv
    OBVIOUS
<1>1. \A h \in Handlers : work[h].pc = "idle"
    BY DEF Init, Idle
<1>2. \A b \in Bookings : booking[b].status = "none"
    BY DEF Init
<1> QED BY <1>1, <1>2 DEF SlotInv, Has, Looks, Ready

LEMMA LooksNext ==
    ASSUME TypeInv, LinkInv, [Next]_vars, NEW h \in Handlers, Looks(h)
    PROVE  Looks(h)'
<1>0. work[h] \in Working /\ Fits(h, work[h])
    BY HandlerFits
<1>1. CASE work'[h] = work[h]
    <2> SUFFICES ASSUME work[h].kind \in Confirming, work[h].pc = "booking"
                 PROVE  Looks(h)'
        BY <1>1 DEF Looks
    <2>1. PICK b \in Bookings : b = work[h].b /\ Made(b)
        BY <1>0, HandlerFits DEF Working, Fits
    <2>2. Lasts(b)
        BY <2>1, Lasting
    <2> QED BY <1>1, <2>1, <2>2 DEF Looks, Lasts, MarksKept
<1>2. CASE (ReadBooking(h) \/ Check(h)) /\ ~Refuse(h)
    <2>1. /\ UNCHANGED <<rows, history>> /\ work'[h].b = work[h].b
          /\ work'[h].pc = "booking" => work'[h].hall = booking[work[h].b].hall
        BY <1>2, ReadGoes
    <2> QED BY <2>1 DEF Looks, rows
<1>3. CASE Hold(h)
    <2>1. work'[h].kind = work[h].kind /\ work[h].kind = "cancel_order"
        BY <1>0, <1>3 DEF Hold, Working, TypeInv
    <2> QED BY <2>1 DEF Looks, Confirming
<1>4. CASE work'[h].pc \in {"idle", "asked", "asking", "order"}
    BY <1>4 DEF Looks
<1>5. CASE work'[h].kind \in {"patch"} \cup PanelKinds
    BY <1>5 DEF Looks, Confirming, PanelKinds
<1> QED BY <1>1, <1>2, <1>3, <1>4, <1>5, Enters

\* A booking comes into being by its insertion.
LEMMA Unmade ==
    ASSUME TypeInv, LinkInv, [Next]_vars, NEW b \in Bookings, ~Made(b)
    PROVE  booking'[b].status = "none" \/ \E g \in Guests : Inserted(g, b)
<1>0. \A h \in Handlers : work[h].b # b
    BY DEF TypeInv, Referenced
<1>1. booking' = booking => booking'[b].status = "none"
    BY DEF Made
<1>2. ASSUME NEW c \in Bookings, NEW s \in Written, booking' = [booking EXCEPT ![c].status = s], c # b
      PROVE  booking'[b].status = "none"
    BY <1>2, StatusFits DEF Made
<1>3. ASSUME NEW g \in Guests, Insert(g) PROVE booking'[b].status = "none" \/ Inserted(g, b)
    <2>1. PICK c \in Bookings : Inserted(g, c)
        BY <1>3, Inserts
    <2> QED BY <2>1 DEF Inserted, Made
<1>4. ASSUME NEW g \in Guests, CancelBooking(g) \/ CancelOrder(g) PROVE booking'[b].status = "none"
    <2>0. work[g] \in Working /\ Fits(g, work[g]) /\ work[g].b # b
        BY <1>0, HandlerFits, GuestsAndStaff
    <2>1. \/ booking' = booking
          \/ work[g].b \in Bookings /\ booking' = [booking EXCEPT ![work[g].b].status = "cancelled"]
        BY <1>4, <2>0 DEF CancelBooking, CancelOrder, Working, Fits
    <2> QED BY <1>1, <1>2, <2>0, <2>1 DEF Written
<1>5. ASSUME NEW h \in Handlers, Confirm(h) PROVE booking'[b].status = "none"
    <2>0. work[h] \in Working /\ work[h].b # b
        BY <1>0, HandlerFits
    <2>1. \/ booking' = booking
          \/ work[h].b \in Bookings /\ booking' = [booking EXCEPT ![work[h].b].status = "confirmed"]
        BY <1>5, <2>0 DEF Confirm, Working
    <2> QED BY <1>1, <1>2, <2>0, <2>1 DEF Written
<1>6. ASSUME NEW s \in Staff, SavePatch(s) PROVE booking'[b].status = "none"
    BY <1>0, <1>6, PatchedFits, GuestsAndStaff DEF Made
<1>7. ASSUME NEW h \in Handlers, ReadBooking(h) \/ Check(h) \/ Abort(h) PROVE booking' = booking
    BY <1>7, ReadGoes DEF Refuse, Abort, rows
<1>8. \A g \in Guests :
          /\ \A kind \in AskKinds, hall \in Halls : Ask(g, kind, hall) => booking' = booking
          /\ PlaceOrder(g) \/ Hold(g) \/ AskGuest(g) => booking' = booking
          /\ RowMoves(g) \/ CacheMoves(g) \/ Recover(g) => booking' = booking
          /\ \A kind \in {"confirm_booking", "cancel_booking"} : Answer(g, kind) => booking' = booking
          /\ \A h \in Handlers, kind \in {"confirm_order", "cancel_order"} :
                TakeOrder(h, g, kind) => booking' = booking
    BY DEF Ask, PlaceOrder, Hold, AskGuest, RowMoves, CacheMoves, Recover, Answer, TakeOrder, rows
<1>9. \A s \in Staff :
          /\ \A c \in Bookings, hall \in Halls, status \in Written :
                Patch(s, c, hall, status) => booking' = booking
          /\ \A g \in Guests, kind \in PanelKinds : OpenOrder(s, g, kind) => booking' = booking
          /\ SaveOrder(s) => booking' = booking
    BY DEF Patch, OpenOrder, SaveOrder, rows
<1>10. UNCHANGED vars => booking' = booking
    BY DEF vars, rows
<1> QED BY <1>1, <1>3, <1>4, <1>5, <1>6, <1>7, <1>8, <1>9, <1>10, GuestsAndStaff DEF Next

\* The step in which handler h becomes sure that nobody else has the table.
Clears(h, b) ==
    /\ (ReadBooking(h) \/ Check(h)) /\ ~Refuse(h)
    /\ work[h].kind \in Confirming /\ work[h].pc = "booking" /\ work[h].b = b /\ Free(h)

LEMMA ReadyFrom ==
    ASSUME TypeInv, [Next]_vars, NEW b \in Bookings, NEW h \in Handlers, Ready(h, b)'
    PROVE  Made(b) /\ (Ready(h, b) \/ Clears(h, b))
<1>0. work[h] \in Working /\ Fits(h, work[h]) /\ (work[h].b # None => Made(work[h].b)) /\ b # None
    BY HandlerFits
<1>1. CASE work'[h] = work[h]
    BY <1>0, <1>1 DEF Ready
<1>2. CASE (ReadBooking(h) \/ Check(h)) /\ ~Refuse(h)
    <2>1. /\ work'[h].kind = work[h].kind /\ work'[h].b = work[h].b
          /\ work'[h].pc = "ready"
          /\ \/ work[h].b = None \/ work[h].kind = "cancel_booking"
             \/ work[h].pc = "booking" /\ Free(h)
        BY <1>2, ReadGoes DEF Ready
    <2> QED BY <1>0, <1>2, <2>1 DEF Ready, Clears, Confirming
<1>3. CASE Hold(h)
    <2>1. work'[h].kind = work[h].kind /\ work[h].kind = "cancel_order"
        BY <1>0, <1>3 DEF Hold, Working, TypeInv
    <2> QED BY <2>1 DEF Ready, Confirming
<1>4. CASE work'[h].pc \in {"idle", "asked", "asking", "order"}
    BY <1>4 DEF Ready
<1>5. CASE work'[h].kind \in {"patch"} \cup PanelKinds
    BY <1>5 DEF Ready, Confirming, PanelKinds
<1> QED BY <1>1, <1>2, <1>3, <1>4, <1>5, Enters

LEMMA HasFrom ==
    ASSUME TypeInv, LinkInv, [Next]_vars, NEW b \in Bookings, Has(b)'
    PROVE  Has(b) \/ \E h \in Handlers : Clears(h, b)
<1>1. Made(b)
    <2>1. CASE booking'[b].status = "confirmed"
        BY <2>1, Unmade DEF Inserted
    <2>2. CASE \E h \in Handlers : Ready(h, b)'
        BY <2>2, ReadyFrom
    <2> QED BY <2>1, <2>2 DEF Has
<1>2. Lasts(b) /\ "staff" \notin marks'[b] /\ "revived" \notin marks'[b]
    BY <1>1, Lasting DEF Has, Clean
<1>3. /\ booking[b].hall = "vip" /\ booking[b].status # "cancelled" /\ Clean(b)
      /\ booking'[b].status = booking[b].status \/ Decided(b)
    BY <1>2 DEF Lasts, MarksKept, Has, Clean
<1>4. CASE booking'[b].status = booking[b].status
    <2>1. CASE booking'[b].status = "confirmed"
        BY <1>3, <1>4, <2>1 DEF Has
    <2>2. ASSUME NEW h \in Handlers, Ready(h, b)' PROVE Has(b) \/ Clears(h, b)
        BY <1>3, <2>2, ReadyFrom DEF Has
    <2> QED BY <2>1, <2>2 DEF Has
<1>5. CASE Decided(b)
    <2>1. booking'[b].status # "cancelled"
        BY DEF Has
    <2>2. \E h \in Handlers : Ready(h, b)
        BY <1>5, <2>1, GuestsAndStaff DEF Decided, Ready, Confirming
    <2> QED BY <1>3, <2>2 DEF Has
<1> QED BY <1>3, <1>4, <1>5

LEMMA SlotNext ==
    ASSUME TypeInv, LinkInv, SlotInv, [Next]_vars
    PROVE  SlotInv'
<1>1. \A h \in Handlers : Looks(h)'
    BY LooksNext DEF SlotInv
<1>2. ASSUME NEW b \in Bookings, NEW c \in Bookings, Has(b)', Has(c)', b # c,
             NEW h \in Handlers, Clears(h, b)
      PROVE  FALSE
    <2>0. work[h] \in Working /\ Fits(h, work[h]) /\ Looks(h)
        BY HandlerFits DEF SlotInv
    <2>1. UNCHANGED <<rows, history>> /\ \A q \in Handlers \ {h} : work'[q] = work[q]
        BY <1>2, ReadGoes DEF Clears
    <2>2. Has(c)
        <3>1. ASSUME NEW q \in Handlers, Clears(q, c) PROVE FALSE
            <4>1. q # h
                BY <1>2, <3>1 DEF Clears
            <4>2. work'[q].pc # work[q].pc
                BY <3>1, ReadGoes DEF Clears
            <4> QED BY <2>1, <4>1, <4>2
        <3> QED BY <1>2, <3>1, HasFrom
    <2>3. booking[b].hall = "vip" /\ "staff" \notin marks[b]
        BY <1>2, <2>1 DEF Has, Clean, rows, history
    <2>4. work[h].hall = "vip" /\ work[h].status = "none"
        BY <1>2, <2>0, <2>3 DEF Clears, Looks, Fits
    <2>5. ~Blocks(c)
        BY <1>2, <2>4 DEF Clears, Free, Occupied
    <2>6. Made(c)
        BY <2>2, HandlerFits DEF Has, Made, Ready
    <2> QED BY <2>2, <2>5, <2>6 DEF Blocks, Has, Made
<1>3. \A b, c \in Bookings : Has(b)' /\ Has(c)' => b = c
    <2> SUFFICES ASSUME NEW b \in Bookings, NEW c \in Bookings, Has(b)', Has(c)', b # c PROVE FALSE
        OBVIOUS
    <2>1. Has(b) /\ Has(c)
        BY <1>2, HasFrom
    <2> QED BY <2>1 DEF SlotInv
<1> QED BY <1>1, <1>3 DEF SlotInv

\* SharedNeedsCause: guests alone never share the VIP table.  Whoever is sure
\* that the slot is free has a row that is a draft, and a draft keeps the table
\* from every other who looks.
THEOREM SharingNeedsCause == Spec => []SharedNeedsCause
<1>1. TypeInv /\ LinkInv /\ SlotInv /\ [Next]_vars => SlotInv'
    BY SlotNext
<1>2. SlotInv => SharedNeedsCause
    BY DEF SlotInv, SharedNeedsCause, Has, Clean
<1> QED BY <1>1, <1>2, TypeInit, TypeNext, LinkInit, LinkNext, SlotInit, PTL DEF Spec

-----------------------------------------------------------------------------
(* Orders, drafts and who decides them *)

\* Who writes the order of guest g, and the booking it waits for.
LEMMA OrderFrom ==
    ASSUME TypeInv, LinkInv, [Next]_vars, NEW g \in Guests
    PROVE  /\ \/ order'[g] = order[g]
              \/ \E c \in Bookings : Inserted(g, c)
              \/ order[g].status = "none" /\ order'[g].status = "draft"
              \/ \E h \in Handlers : Confirm(h) /\ work[h].kind = "confirm_order" /\ work[h].guest = g
              \/ CancelOrder(g)
              \/ \E s \in Staff : SaveOrder(s) /\ work[s].guest = g
           /\ \/ waiting'[g] = waiting[g]
              \/ AskGuest(g) \/ CacheMoves(g) \/ Recover(g)
              \/ Refuse(g) /\ work[g].kind \in {"confirm_booking", "cancel_booking"}
              \/ Confirm(g) /\ work[g].kind = "confirm_booking"
              \/ CancelBooking(g)
<1> DEFINE OrderSame == order'[g] = order[g]
           WaitingSame == waiting'[g] = waiting[g]
<1>0. g \in Handlers
    BY GuestsAndStaff
<1>1. ASSUME NEW q \in Guests, Insert(q)
      PROVE  WaitingSame /\ (OrderSame \/ \E c \in Bookings : Inserted(g, c))
    <2>1. PICK c \in Bookings : Inserted(q, c)
        BY <1>1, Inserts
    <2>2. WaitingSame
        BY <2>1 DEF Inserted
    <2>3. CASE q = g
        BY <2>1, <2>2, <2>3
    <2>4. CASE q # g
        BY <2>1, <2>2, <2>4 DEF Inserted
    <2> QED BY <2>3, <2>4
<1>2. ASSUME NEW q \in Guests, PlaceOrder(q)
      PROVE  WaitingSame /\ (OrderSame \/ (order[g].status = "none" /\ order'[g].status = "draft"))
    <2>1. WaitingSame /\ order' = [order EXCEPT ![q].status = "draft"] /\ order[q].status = "none"
        BY <1>2 DEF PlaceOrder
    <2> QED BY <2>1, OrderFits DEF OrderStatuses
<1>3. ASSUME NEW h \in Handlers, Confirm(h)
      PROVE  /\ OrderSame \/ (work[h].kind = "confirm_order" /\ work[h].guest = g)
             /\ WaitingSame \/ (h = g /\ work[h].kind = "confirm_booking")
    <2>0. Fits(h, work[h])
        BY HandlerFits
    <2>1. CASE work[h].kind = "confirm_order"
        <3>1. PICK q \in Guests : q = work[h].guest
            BY <2>0, <2>1 DEF Fits, Confirming
        <3>2. waiting' = waiting /\ order' = [order EXCEPT ![q].status = "confirmed"]
            BY <1>3, <2>1, <3>1 DEF Confirm
        <3> QED BY <2>1, <3>1, <3>2, OrderFits DEF OrderStatuses
    <2>2. CASE work[h].kind = "confirm_booking"
        <3>1. h \in Guests /\ order' = order /\ waiting' \in {waiting, [waiting EXCEPT ![h] = None]}
            BY <1>3, <2>0, <2>2 DEF Confirm, Forget, Fits
        <3> QED BY <2>2, <3>1 DEF TypeInv
    <2> QED BY <1>3, <2>1, <2>2 DEF Confirm
<1>4. ASSUME NEW q \in Guests, CancelBooking(q) PROVE OrderSame /\ (WaitingSame \/ q = g)
    BY <1>4 DEF CancelBooking, Forget, TypeInv
<1>4a. ASSUME NEW q \in Guests, AskGuest(q) \/ CacheMoves(q) \/ Recover(q)
       PROVE  OrderSame /\ (WaitingSame \/ q = g)
    BY <1>4a DEF AskGuest, CacheMoves, Recover, TypeInv
<1>5. ASSUME NEW q \in Guests, CancelOrder(q) PROVE WaitingSame /\ (OrderSame \/ q = g)
    BY <1>5, OrderFits DEF CancelOrder, OrderStatuses
<1>6. ASSUME NEW s \in Staff, SaveOrder(s) PROVE WaitingSame /\ (OrderSame \/ work[s].guest = g)
    BY <1>6 DEF SaveOrder, TypeInv
<1>7. ASSUME NEW h \in Handlers, Refuse(h)
      PROVE  /\ OrderSame
             /\ WaitingSame \/ (h = g /\ work[h].kind \in {"confirm_booking", "cancel_booking"})
    <2>0. Fits(h, work[h])
        BY HandlerFits
    <2> QED BY <1>7, <2>0 DEF Refuse, Forget, Fits, TypeInv
<1>8. ASSUME NEW h \in Handlers, ReadBooking(h) \/ Check(h) \/ Abort(h), ~Refuse(h)
      PROVE  OrderSame /\ WaitingSame
    BY <1>8, ReadGoes DEF Abort, rows
<1>9. ASSUME UNCHANGED <<order, waiting>> PROVE OrderSame /\ WaitingSame
    BY <1>9
<1>10. \A q \in Guests :
          /\ \A kind \in AskKinds, hall \in Halls : Ask(q, kind, hall) => UNCHANGED <<order, waiting>>
          /\ Hold(q) \/ RowMoves(q) => UNCHANGED <<order, waiting>>
          /\ \A kind \in {"confirm_booking", "cancel_booking"} : Answer(q, kind) => UNCHANGED <<order, waiting>>
          /\ \A h \in Handlers, kind \in {"confirm_order", "cancel_order"} :
                TakeOrder(h, q, kind) => UNCHANGED <<order, waiting>>
    BY DEF Ask, Hold, RowMoves, Answer, TakeOrder, rows
<1>11. \A s \in Staff :
          /\ \A c \in Bookings, hall \in Halls, status \in Written :
                Patch(s, c, hall, status) => UNCHANGED <<order, waiting>>
          /\ \A q \in Guests, kind \in PanelKinds : OpenOrder(s, q, kind) => UNCHANGED <<order, waiting>>
          /\ SavePatch(s) => UNCHANGED <<order, waiting>>
    BY DEF Patch, OpenOrder, SavePatch, rows
<1>12. UNCHANGED vars => UNCHANGED <<order, waiting>>
    BY DEF vars, rows
<1> HIDE DEF OrderSame, WaitingSame
<1>13. CASE OrderSame /\ WaitingSame
    BY <1>13 DEF OrderSame, WaitingSame
<1>14. ASSUME NEW q \in Guests,
             \/ \E kind \in AskKinds, hall \in Halls : Ask(q, kind, hall)
             \/ Insert(q) \/ PlaceOrder(q) \/ AskGuest(q) \/ RowMoves(q) \/ CacheMoves(q) \/ Recover(q)
             \/ \E kind \in {"confirm_booking", "cancel_booking"} : Answer(q, kind)
             \/ \E kind \in {"confirm_order", "cancel_order"} : TakeOrder(q, q, kind)
             \/ CancelBooking(q) \/ Hold(q) \/ CancelOrder(q)
      PROVE  \/ OrderSame /\ WaitingSame
             \/ WaitingSame /\ \E c \in Bookings : Inserted(g, c)
             \/ WaitingSame /\ order[g].status = "none" /\ order'[g].status = "draft"
             \/ OrderSame /\ (AskGuest(g) \/ CacheMoves(g) \/ Recover(g))
             \/ OrderSame /\ CancelBooking(g)
             \/ WaitingSame /\ CancelOrder(g)
    BY <1>1, <1>2, <1>4, <1>4a, <1>5, <1>9, <1>10, <1>14, GuestsAndStaff
<1>15. ASSUME NEW s \in Staff,
             \/ \E q \in Guests : TakeOrder(s, q, "confirm_order")
             \/ \E b \in Bookings, hall \in Halls, status \in Written : Patch(s, b, hall, status)
             \/ SavePatch(s)
             \/ \E q \in Guests, kind \in PanelKinds : OpenOrder(s, q, kind)
             \/ SaveOrder(s)
      PROVE  \/ OrderSame /\ WaitingSame
             \/ WaitingSame /\ SaveOrder(s) /\ work[s].guest = g
    BY <1>6, <1>9, <1>10, <1>11, <1>15, GuestsAndStaff
<1>16. ASSUME NEW h \in Handlers, ReadBooking(h) \/ Check(h) \/ Confirm(h) \/ Abort(h)
      PROVE  \/ OrderSame /\ WaitingSame
             \/ OrderSame /\ Refuse(g) /\ work[g].kind \in {"confirm_booking", "cancel_booking"}
             \/ /\ Confirm(h)
                /\ OrderSame \/ (work[h].kind = "confirm_order" /\ work[h].guest = g)
                /\ WaitingSame \/ (Confirm(g) /\ work[g].kind = "confirm_booking")
    BY <1>3, <1>7, <1>8, <1>16
<1> QED BY <1>9, <1>12, <1>14, <1>15, <1>16 DEF Next, OrderSame, WaitingSame

\* What confirming an order does to it and to its booking.
LEMMA OrderConfirmed ==
    ASSUME TypeInv, LinkInv, NEW h \in Handlers, Confirm(h), work[h].kind = "confirm_order",
           NEW g \in Guests, work[h].guest = g, NEW b \in Bookings, order[g].booking = b
    PROVE  booking'[b].status = "confirmed" \/ marks'[b] \cap {"staff", "unseen"} # {}
<1>1. work[h] \in Working /\ HasOrders(h) /\ Stored(g)
    BY HandlerFits DEF LinkInv, Confirm
<1>2. CASE work[h].b = None
    <2>1. Mark("unseen", {b})
        BY <1>2 DEF Confirm
    <2> QED BY <2>1, MarkKeeps
<1>3. CASE work[h].b # None
    <2>1. work[h].b = b
        BY <1>1, <1>3 DEF HasOrders, Stored
    <2>2. booking' = [booking EXCEPT ![b].status = "confirmed"]
        BY <1>3, <2>1 DEF Confirm
    <2> QED BY <2>2, StatusFits DEF Written
<1> QED BY <1>2, <1>3

LEMMA ConfirmedNext ==
    ASSUME TypeInv, LinkInv, HeldInv, OrderHasBooking, [Next]_vars
    PROVE  OrderHasBooking'
<1> SUFFICES ASSUME NEW g \in Guests, NEW b, b = order'[g].booking, order'[g].status = "confirmed", b # None,
                    marks'[b] \cap {"staff", "unseen"} = {}
             PROVE  booking'[b].status = "confirmed"
    BY DEF OrderHasBooking
<1>1. CASE order'[g] = order[g]
    <2>1. b \in Bookings /\ Made(b) /\ order[g].booking = b
        BY <1>1 DEF TypeInv, Referenced
    <2>2. Lasts(b) /\ Apart
        BY <2>1, Lasting DEF LinkInv
    <2>3. marks[b] \cap {"staff", "unseen"} = {}
        BY <2>2 DEF Lasts, MarksKept
    <2>4. booking[b].status = "confirmed"
        BY <1>1, <2>1, <2>3 DEF OrderHasBooking
    <2>5. \A o \in Guests : ~Talks(o, b)
        BY <2>1, <2>2 DEF Apart
    <2>6. \A o \in Guests : ~(work[o].pc = "held" /\ work[o].status = "draft" /\ work[o].b = b)
        BY <2>1, <2>3, <2>4 DEF HeldInv, Held
    <2>7. Decided(b) => booking'[b].status = "confirmed"
        BY <1>1, <2>5, <2>6 DEF Decided, Talks, TalkKinds
    <2> QED BY <2>2, <2>4, <2>7 DEF Lasts
<1>2. ASSUME NEW h \in Handlers, Confirm(h), work[h].kind = "confirm_order", work[h].guest = g
      PROVE  booking'[b].status = "confirmed"
    <2>1. order' = [order EXCEPT ![g].status = "confirmed"]
        BY <1>2 DEF Confirm
    <2>2. order[g].booking = b /\ b \in Bookings
        BY <2>1, OrderFits DEF OrderStatuses, TypeInv
    <2> QED BY <1>2, <2>2, OrderConfirmed
<1>3. ASSUME NEW c \in Bookings, Inserted(g, c) PROVE order'[g] = order[g]
    BY <1>3 DEF Inserted
<1>4. ~CancelOrder(g)
    BY OrderFits DEF CancelOrder, OrderStatuses
<1>5. ASSUME NEW s \in Staff, SaveOrder(s), work[s].guest = g PROVE FALSE
    <2>1. \/ order' = [order EXCEPT ![g] = DeletedOrder]
          \/ \E status \in {"draft", "cancelled"} : order' = [order EXCEPT ![g].status = status]
        BY <1>5 DEF SaveOrder, PanelStatus
    <2>2. order' # [order EXCEPT ![g] = DeletedOrder]
        BY DEF TypeInv, DeletedOrder, NoOrder
    <2> QED BY <2>1, <2>2, OrderFits DEF OrderStatuses
<1> QED BY <1>1, <1>2, <1>3, <1>4, <1>5, OrderFrom

\* OrderHasBooking: a confirmed order has a confirmed booking.  Whoever
\* confirms an order has its booking or leaves it unseen, and the cancellation
\* of one holds its row.
THEOREM ConfirmedOrdersHaveBookings == Spec => []OrderHasBooking
<1>1. Init => OrderHasBooking
    BY DEF Init, OrderHasBooking, NoOrder
<1>2. TypeInv /\ LinkInv /\ HeldInv /\ [Next]_vars => HeldInv'
    BY HeldNext
<1>3. TypeInv /\ LinkInv /\ HeldInv /\ OrderHasBooking /\ [Next]_vars => OrderHasBooking'
    BY ConfirmedNext
<1> QED BY <1>1, <1>2, <1>3, TypeInit, TypeNext, LinkInit, LinkNext, HeldInit, PTL DEF Spec

\* The row of users keeps the question, or the draft has a mark.
LEMMA AskedStays ==
    ASSUME TypeInv, LinkInv, [Next]_vars, NEW b \in Bookings,
           booking[b].status = "draft", marks'[b] \cap {"staff", "unseen", "left", "moved"} = {},
           NEW g \in Guests, asked[g] = b
    PROVE  asked'[g] = b
<1>1. ASSUME NEW q \in Guests, Insert(q) PROVE asked'[g] = b
    <2>1. PICK c \in Bookings : Inserted(q, c)
        BY <1>1, Inserts
    <2>2. q \in Guests /\ work[q].pc = "asked" => asked[q] = None
        BY DEF LinkInv, Knows
    <2> QED BY <2>1, <2>2 DEF Inserted
<1>2. ASSUME NEW q \in Guests, RowMoves(q) PROVE asked'[g] = b
    <2>1. CASE q = g
        <3>1. marks' = Marked("moved", {c \in {asked[g]} : booking[c].status = "draft"})
              /\ b \in {c \in {asked[g]} : booking[c].status = "draft"}
            BY <1>2, <2>1 DEF RowMoves
        <3> QED BY <3>1, MarkKeeps
    <2>2. CASE q # g
        BY <1>2, <2>2 DEF RowMoves, TypeInv
    <2> QED BY <2>1, <2>2
<1>3. asked' = asked => asked'[g] = b
    OBVIOUS
<1>4. ASSUME NEW q \in Guests,
             \/ \E kind \in AskKinds, hall \in Halls : Ask(q, kind, hall)
             \/ Insert(q) \/ PlaceOrder(q) \/ AskGuest(q) \/ RowMoves(q) \/ CacheMoves(q) \/ Recover(q)
             \/ \E kind \in {"confirm_booking", "cancel_booking"} : Answer(q, kind)
             \/ \E kind \in {"confirm_order", "cancel_order"} : TakeOrder(q, q, kind)
             \/ CancelBooking(q) \/ Hold(q) \/ CancelOrder(q)
      PROVE  asked'[g] = b
    BY <1>1, <1>2, <1>3, <1>4
       DEF Ask, PlaceOrder, AskGuest, CacheMoves, Recover, Answer, TakeOrder, CancelBooking, Hold,
           CancelOrder, rows
<1>5. ASSUME NEW s \in Staff,
             \/ \E q \in Guests : TakeOrder(s, q, "confirm_order")
             \/ \E c \in Bookings, hall \in Halls, status \in Written : Patch(s, c, hall, status)
             \/ SavePatch(s)
             \/ \E q \in Guests, kind \in PanelKinds : OpenOrder(s, q, kind)
             \/ SaveOrder(s)
      PROVE  asked'[g] = b
    BY <1>3, <1>5 DEF TakeOrder, Patch, SavePatch, OpenOrder, SaveOrder, rows
<1>6. ASSUME NEW h \in Handlers, ReadBooking(h) \/ Check(h) \/ Confirm(h) \/ Abort(h)
      PROVE  asked'[g] = b
    <2>1. CASE Refuse(h) \/ Confirm(h) \/ Abort(h)
        BY <1>3, <2>1 DEF Refuse, Confirm, Abort, rows
    <2>2. CASE ~(Refuse(h) \/ Confirm(h) \/ Abort(h))
        BY <1>3, <1>6, <2>2, ReadGoes DEF rows
    <2> QED BY <2>1, <2>2
<1>7. UNCHANGED vars => asked' = asked
    BY DEF vars, rows
<1> QED BY <1>3, <1>4, <1>5, <1>6, <1>7 DEF Next

\* A draft that somebody has been able to decide stays so.
LEMMA DraftWaited ==
    ASSUME TypeInv, LinkInv, [Next]_vars, NEW b \in Bookings, Made(b), booking'[b].status = "draft",
           booking[b].status = "draft", marks'[b] \cap {"staff", "unseen", "left", "moved"} = {},
           NEW g \in Guests, waiting[g] = b
    PROVE  waiting'[g] = b
<1>0. g \in Handlers /\ work[g] \in Working /\ Fits(g, work[g]) /\ b # None
    BY HandlerFits, GuestsAndStaff
<1>1. ASSUME work[g].kind \in TalkKinds, work[g].b # None PROVE work[g].b = b
    <2>1. work[g].b \in Bookings /\ Talks(g, work[g].b) /\ Talks(g, b)
        BY <1>0, <1>1 DEF Talks, Working
    <2> QED BY <2>1 DEF LinkInv, Apart
<1>2. ~(Refuse(g) /\ work[g].kind \in {"confirm_booking", "cancel_booking"})
    <2> SUFFICES ASSUME Refuse(g), work[g].kind \in {"confirm_booking", "cancel_booking"} PROVE FALSE
        OBVIOUS
    <2>1. work[g].b = b
        BY <1>0, <1>1 DEF Fits, TalkKinds
    <2>2. Mark("left", {b})
        BY <2>1 DEF Refuse
    <2> QED BY <2>2, MarkKeeps
<1>3. ~(Confirm(g) /\ work[g].kind = "confirm_booking")
    <2> SUFFICES ASSUME Confirm(g), work[g].kind = "confirm_booking" PROVE FALSE
        OBVIOUS
    <2>1. booking' = [booking EXCEPT ![b].status = "confirmed"]
        BY <1>0, <1>1 DEF Fits, TalkKinds, Confirm
    <2> QED BY <2>1, StatusFits DEF Written
<1>4. ~CancelBooking(g)
    <2> SUFFICES ASSUME CancelBooking(g) PROVE FALSE
        OBVIOUS
    <2>1. booking' = [booking EXCEPT ![b].status = "cancelled"]
        BY <1>0, <1>1 DEF Fits, TalkKinds, CancelBooking
    <2> QED BY <2>1, StatusFits DEF Written
<1>5. ASSUME AskGuest(g) PROVE waiting'[g] = b
    <2>1. waiting' = [waiting EXCEPT ![g] = b]
        BY <1>0, <1>1, <1>5 DEF AskGuest, Fits, TalkKinds
    <2> QED BY <2>1 DEF TypeInv
<1>6. ~CacheMoves(g)
    <2> SUFFICES ASSUME CacheMoves(g) PROVE FALSE
        OBVIOUS
    <2>1. marks' = Marked("moved", {c \in {waiting[g]} : booking[c].status = "draft"})
        BY DEF CacheMoves
    <2>2. b \in {c \in {waiting[g]} : booking[c].status = "draft"}
        OBVIOUS
    <2> QED BY <2>1, <2>2, MarkKeeps
<1>7. ~Recover(g)
    BY <1>0 DEF Recover
<1> QED BY <1>2, <1>3, <1>4, <1>5, <1>6, <1>7, OrderFrom

\* A handler that is about to ask its guest does so, or fails.
LEMMA AskingGoes ==
    ASSUME TypeInv, LinkInv, [Next]_vars, NEW g \in Guests, work[g].pc = "asking", work'[g] # work[g]
    PROVE  AskGuest(g) \/ Abort(g)
<1>0. g \in Handlers /\ Fits(g, work[g]) /\ work[g] # Idle
    BY HandlerFits, GuestsAndStaff DEF Idle
<1>1. ASSUME NEW q \in Handlers, Leave(q) PROVE q = g
    BY <1>0, <1>1 DEF Leave, TypeInv
<1>2. ASSUME NEW q \in Handlers, NEW w, Start(q, w) PROVE FALSE
    BY <1>0, <1>2 DEF Start, TypeInv
<1>3. ASSUME NEW q \in Guests, Insert(q) PROVE FALSE
    <2>1. PICK c \in Bookings : Inserted(q, c)
        BY <1>3, Inserts
    <2> QED BY <1>0, <2>1 DEF Inserted
<1>4. ASSUME NEW h \in Handlers, ReadBooking(h) \/ Check(h) PROVE FALSE
    <2>1. CASE Refuse(h)
        <3>1. h = g
            BY <1>1, <2>1 DEF Refuse
        <3> QED BY <1>4, <3>1 DEF ReadBooking, Check
    <2>2. CASE ~Refuse(h)
        BY <1>0, <1>4, <2>2, ReadGoes
    <2> QED BY <2>1, <2>2
<1>5. ASSUME NEW h \in Handlers, Confirm(h) PROVE FALSE
    BY <1>1, <1>5 DEF Confirm
<1>6. ASSUME NEW h \in Handlers, Abort(h) PROVE Abort(g)
    BY <1>1, <1>6 DEF Abort
<1>7. ASSUME NEW q \in Guests,
             \/ \E kind \in AskKinds, hall \in Halls : Ask(q, kind, hall)
             \/ Insert(q) \/ PlaceOrder(q) \/ AskGuest(q) \/ RowMoves(q) \/ CacheMoves(q) \/ Recover(q)
             \/ \E kind \in {"confirm_booking", "cancel_booking"} : Answer(q, kind)
             \/ \E kind \in {"confirm_order", "cancel_order"} : TakeOrder(q, q, kind)
             \/ CancelBooking(q) \/ Hold(q) \/ CancelOrder(q)
      PROVE  AskGuest(g)
    <2>0. q \in Handlers
        BY GuestsAndStaff
    <2>1. ASSUME AskGuest(q) \/ CancelBooking(q) \/ CancelOrder(q) PROVE AskGuest(g)
        <3>1. q = g
            BY <1>1, <2>0, <2>1 DEF AskGuest, CancelBooking, CancelOrder
        <3> QED BY <2>1, <3>1 DEF CancelBooking, CancelOrder
    <2>2. ~Hold(q)
        <3>1. Hold(q) => q = g
            BY <1>0 DEF Hold, TypeInv
        <3> QED BY <3>1 DEF Hold
    <2>3. /\ \A kind \in AskKinds, hall \in Halls : ~Ask(q, kind, hall)
          /\ \A kind \in {"confirm_booking", "cancel_booking"} : ~Answer(q, kind)
          /\ \A kind \in {"confirm_order", "cancel_order"} : ~TakeOrder(q, q, kind)
        BY <1>2, <2>0 DEF Ask, Answer, TakeOrder
    <2>4. ~PlaceOrder(q) /\ ~RowMoves(q) /\ ~CacheMoves(q) /\ ~Recover(q)
        BY DEF PlaceOrder, RowMoves, CacheMoves, Recover
    <2> QED BY <1>3, <1>7, <2>1, <2>2, <2>3, <2>4
<1>8. ASSUME NEW s \in Staff,
             \/ \E q \in Guests : TakeOrder(s, q, "confirm_order")
             \/ \E b \in Bookings, hall \in Halls, status \in Written : Patch(s, b, hall, status)
             \/ SavePatch(s)
             \/ \E q \in Guests, kind \in PanelKinds : OpenOrder(s, q, kind)
             \/ SaveOrder(s)
      PROVE  FALSE
    <2>1. s \in Handlers /\ s # g
        BY GuestsAndStaff
    <2>2. ~SavePatch(s) /\ ~SaveOrder(s)
        BY <1>1, <2>1 DEF SavePatch, SaveOrder
    <2>3. /\ \A q \in Guests : ~TakeOrder(s, q, "confirm_order")
          /\ \A b \in Bookings, hall \in Halls, status \in Written : ~Patch(s, b, hall, status)
          /\ \A q \in Guests, kind \in PanelKinds : ~OpenOrder(s, q, kind)
        BY <1>2, <2>1 DEF TakeOrder, Patch, OpenOrder
    <2> QED BY <1>8, <2>2, <2>3
<1>9. ~UNCHANGED vars
    BY DEF vars
<1> QED BY <1>4, <1>5, <1>6, <1>7, <1>8, <1>9 DEF Next

\* About to be asked about a draft, the guest is asked, or it has a mark.
LEMMA DraftAsking ==
    ASSUME TypeInv, LinkInv, [Next]_vars, NEW b \in Bookings, Made(b), booking'[b].status = "draft",
           booking[b].status = "draft", marks'[b] \cap {"staff", "unseen", "left", "moved"} = {},
           NEW g \in Guests, work[g].pc = "asking", work[g].b = b
    PROVE  waiting'[g] = b \/ (work'[g].pc = "asking" /\ work'[g].b = b)
<1>1. CASE work'[g] = work[g]
    BY <1>1
<1>2. CASE AskGuest(g)
    BY <1>2 DEF AskGuest, TypeInv
<1>3. CASE Abort(g)
    <2>1. CASE waiting[g] = b
        BY <2>1, DraftWaited
    <2>2. CASE waiting[g] # b
        <3>1. Mark("moved", {b} \ {waiting[g]}) /\ b \in {b} \ {waiting[g]}
            BY <1>3, <2>2 DEF Abort
        <3> QED BY <3>1, MarkKeeps
    <2> QED BY <2>1, <2>2
<1> QED BY <1>1, <1>2, <1>3, AskingGoes

LEMMA DraftOrdered ==
    ASSUME TypeInv, LinkInv, HeldInv, [Next]_vars, NEW b \in Bookings, Made(b), booking'[b].status = "draft",
           booking[b].status = "draft", marks'[b] \cap {"staff", "unseen", "left", "moved"} = {},
           NEW g \in Guests, order[g] = [status |-> "draft", booking |-> b]
    PROVE  order'[g] = [status |-> "draft", booking |-> b]
<1>0. /\ g \in Handlers /\ work[g] \in Working /\ Fits(g, work[g]) /\ Knows(g) /\ b # None
      /\ Lasts(b) /\ Stored(g) /\ order[g].booking = b
    BY HandlerFits, GuestsAndStaff, Lasting DEF LinkInv, Stored
<1>1. ASSUME NEW c \in Bookings, Inserted(g, c) PROVE order'[g] = order[g]
    BY <1>0, <1>1 DEF Inserted
<1>2. ASSUME NEW h \in Handlers, Confirm(h), work[h].kind = "confirm_order", work[h].guest = g
      PROVE  FALSE
    BY <1>0, <1>2, OrderConfirmed
<1>3. ~CancelOrder(g)
    <2> SUFFICES ASSUME CancelOrder(g) PROVE FALSE
        OBVIOUS
    <2>1. work[g].b = b /\ work[g].pc = "held"
        BY <1>0 DEF CancelOrder, Knows, Fits, Stored
    <2>2. "staff" \notin marks[b]
        BY <1>0 DEF Lasts, MarksKept
    <2>3. work[g].status = "draft"
        BY <1>0, <2>1, <2>2 DEF HeldInv, Held
    <2>4. booking' = [booking EXCEPT ![b].status = "cancelled"]
        BY <2>1, <2>3 DEF CancelOrder
    <2> QED BY <2>4, StatusFits DEF Written
<1>4. ASSUME NEW s \in Staff, SaveOrder(s), work[s].guest = g
      PROVE  order'[g] = [status |-> "draft", booking |-> b]
    <2>1. CASE work[s].kind = "revert"
        <3>1. order' = [order EXCEPT ![g].status = "draft"]
            BY <1>4, <2>1 DEF SaveOrder, PanelStatus
        <3> QED BY <3>1 DEF TypeInv
    <2>2. CASE work[s].kind # "revert"
        <3>1. Mark("left", {b})
            BY <1>0, <1>4, <2>2 DEF SaveOrder
        <3> QED BY <3>1, MarkKeeps
    <2> QED BY <2>1, <2>2
<1> QED BY <1>1, <1>2, <1>3, <1>4, OrderFrom

LEMMA DraftNext ==
    ASSUME TypeInv, LinkInv, HeldInv, DraftHasDecider, [Next]_vars
    PROVE  DraftHasDecider'
<1> SUFFICES ASSUME NEW b \in Bookings, booking'[b].status = "draft"
             PROVE  \/ marks'[b] \cap {"staff", "unseen", "left", "moved"} # {}
                    \/ \E g \in Guests : /\ asked'[g] = b
                                         /\ waiting'[g] = b \/ (work'[g].pc = "asking" /\ work'[g].b = b)
                    \/ \E g \in Guests : order'[g] = [status |-> "draft", booking |-> b]
    BY Zenon DEF DraftHasDecider
<1> SUFFICES ASSUME marks'[b] \cap {"staff", "unseen", "left", "moved"} = {}
             PROVE  \/ \E g \in Guests : /\ asked'[g] = b
                                         /\ waiting'[g] = b \/ (work'[g].pc = "asking" /\ work'[g].b = b)
                    \/ \E g \in Guests : order'[g] = [status |-> "draft", booking |-> b]
    OBVIOUS
<1>1. CASE ~Made(b)
    <2>1. PICK g \in Guests : Inserted(g, b)
        BY <1>1, Unmade
    <2>2. ~Mark("left", {b})
        BY MarkKeeps
    <2> QED BY <2>1, <2>2, AskerFits DEF Inserted
<1>2. CASE Made(b)
    <2>1. Lasts(b)
        BY <1>2, Lasting
    <2>2. booking[b].status = "draft" /\ marks[b] \cap {"staff", "unseen", "left", "moved"} = {}
        BY <2>1 DEF Lasts, MarksKept, Decided
    <2>3. CASE \E g \in Guests : asked[g] = b /\ waiting[g] = b
        BY <1>2, <2>2, <2>3, DraftWaited, AskedStays
    <2>3a. CASE \E g \in Guests : asked[g] = b /\ work[g].pc = "asking" /\ work[g].b = b
        BY <1>2, <2>2, <2>3a, DraftAsking, AskedStays
    <2>4. CASE \E g \in Guests : order[g] = [status |-> "draft", booking |-> b]
        BY <1>2, <2>2, <2>4, DraftOrdered
    <2> QED BY <2>2, <2>3, <2>3a, <2>4 DEF DraftHasDecider
<1> QED BY <1>1, <1>2

\* DraftHasDecider: a guest's yes or no reaches a draft, or he is about to be
\* asked, or it is in a draft order, unless the staff changed it, it was put
\* into an order being confirmed, it was left when it was committed or
\* refused, or the dialog of its guest was moved.
THEOREM DraftsHaveDeciders == Spec => []DraftHasDecider
<1>1. Init => DraftHasDecider
    <2>1. Init => \A b \in Bookings : booking[b].status # "draft"
        BY DEF Init
    <2> QED BY <2>1 DEF DraftHasDecider
<1>2. TypeInv /\ LinkInv /\ HeldInv /\ [Next]_vars => HeldInv'
    BY HeldNext
<1>3. TypeInv /\ LinkInv /\ HeldInv /\ DraftHasDecider /\ [Next]_vars => DraftHasDecider'
    BY DraftNext
<1> QED BY <1>1, <1>2, <1>3, TypeInit, TypeNext, LinkInit, LinkNext, HeldInit, PTL DEF Spec
=============================================================================
