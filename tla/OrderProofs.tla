---------------------------- MODULE OrderProofs ----------------------------
(***************************************************************************)
(* Proofs of the safety properties of OrderLifecycle, for any set of       *)
(* requests, carts and payment methods, and, in the second half, of        *)
(* CartMerge, for any menu, answers of the model and length of them.       *)
(***************************************************************************)
EXTENDS OrderLifecycle, CartMerge, FiniteSetTheorems, NaturalsInduction,
        WellFoundedInduction, TLAPS

\* Whether a request is at its first write.
AtRead(r, ks) == step[r] = "read" /\ kind[r] \in ks

\* A body fits the handler it was sent to.
InputsFit ==
    \A r \in Requests :
        /\ AtRead(r, {"guest_edit", "rebuild"}) => input[r] \in Carts
        /\ AtRead(r, {"payment_choice", "payment_split"}) => input[r] \in Methods
        /\ AtRead(r, {"fulfil"}) => input[r] \in KitchenStatuses

\* A handler works on a status that it lets through, and only the two
\* handlers that send an order hold a claim or wait to refresh the row.
KindsFit ==
    \A r \in Requests :
        /\ step[r] = "read" => seen[r].status \in ReadsIn(kind[r])
        /\ step[r] \in Holding => kind[r] \in Sending
        /\ step[r] = "reload" => kind[r] = "auto_send"

TypeInv == TypeOK /\ InputsFit /\ KindsFit

-----------------------------------------------------------------------------
(* The first inductive invariant. *)

\* The kanban never moves a card out of the statuses of the kitchen.
LEMMA FulfilmentStaysInKitchen ==
    \A s \in Statuses : FulfillmentAllowed[s] \subseteq KitchenStatuses
BY DEF FulfillmentAllowed, Statuses, KitchenStatuses

\* A row the application makes is a row.
LEMMA NewRowIsRow == NewRow \in Rows
BY ConstantsAssumption DEF NewRow, Rows, Statuses

\* The state before any handler ran satisfies the invariant.
LEMMA TypeInit == Init => TypeInv
<1> SUFFICES ASSUME Init PROVE TypeInv
    OBVIOUS
<1>1. TypeOK
    BY NewRowIsRow DEF Init, TypeOK, Kinds, Steps
<1>2. InputsFit /\ KindsFit
    BY DEF Init, InputsFit, KindsFit, AtRead, Holding
<1> QED BY <1>1, <1>2 DEF TypeInv

\* What the first half of a handler leaves behind.
LEMMA TypeRead ==
    ASSUME TypeInv, NEW r \in Requests, Read(r)
    PROVE  TypeInv'
<1>0. PICK k \in Kinds :
        /\ order.status \in ReadsIn(k)
        /\ kind' = [kind EXCEPT ![r] = k]
        /\ \E b \in Bodies(k, order) : input' = [input EXCEPT ![r] = b]
    BY DEF Read
<1>1. PICK b \in Bodies(k, order) : input' = [input EXCEPT ![r] = b]
    BY <1>0
<1>2. order \in Rows /\ order.status \in Statuses
    BY DEF TypeInv, TypeOK, Rows
<1>3. /\ k \in {"guest_edit", "rebuild"} => b \in Carts
      /\ k \in {"payment_choice", "payment_split"} => b \in Methods
      /\ k = "fulfil" => b \in KitchenStatuses
      /\ b \in Carts \cup Methods \cup {NoMethod} \cup Statuses
    BY <1>2, FulfilmentStaysInKitchen DEF Bodies, KitchenStatuses, Statuses, Kinds
<1>4. TypeOK'
    BY <1>0, <1>1, <1>2, <1>3 DEF TypeInv, TypeOK, Read, Load, Steps
<1>5. InputsFit'
    BY <1>0, <1>1, <1>3 DEF TypeInv, TypeOK, Read, Load, InputsFit, AtRead
<1>6. KindsFit'
    BY <1>0 DEF TypeInv, TypeOK, Read, Load, KindsFit, Holding
<1> QED BY <1>4, <1>5, <1>6 DEF TypeInv

\* Ending a request keeps the invariant, whatever else the step wrote.
LEMMA TypeEnd ==
    ASSUME TypeInv, NEW r \in Requests,
           NEW s \in {"saved", "rejected", "done", "lost"}, End(r, s),
           kind' = kind, order' \in Rows, reply' \in [Requests -> BOOLEAN],
           tickets' \subseteq Requests, collided' \in BOOLEAN,
           logged' \subseteq {"order.created", "order.confirmed", "order.cancelled"}
    PROVE  TypeInv'
<1>1. TypeOK'
    BY NewRowIsRow DEF TypeInv, TypeOK, End, Steps
<1>2. InputsFit'
    BY DEF TypeInv, TypeOK, End, InputsFit, AtRead
<1>3. KindsFit'
    BY DEF TypeInv, TypeOK, End, KindsFit, Holding
<1> QED BY <1>1, <1>2, <1>3 DEF TypeInv

\* A snapshot and a row are rows; their columns have the columns' types.
LEMMA RowColumns ==
    ASSUME NEW o \in Rows
    PROVE  /\ o.status \in Statuses /\ o.version \in Nat /\ o.version + 1 \in Nat
           /\ o.lines \in Carts /\ o.total \in Carts
           /\ o.pay \in Methods \cup {NoMethod} /\ o.live \in BOOLEAN
BY DEF Rows

\* The writers of the cart.
LEMMA TypeCart ==
    ASSUME TypeInv, NEW r \in Requests, EditCart(r)
    PROVE  TypeInv'
<1>1. order \in Rows /\ seen[r] \in Rows
    BY DEF TypeInv, TypeOK
<1>2. CASE SaveGuestEdit(r)
    <2>1. input[r] \in Carts
        BY <1>2 DEF SaveGuestEdit, TypeInv, InputsFit, At, AtRead
    <2>2. order' \in Rows
        <3>1. order' = [order EXCEPT !.lines = input[r], !.total = input[r],
                                     !.pay = seen[r].pay, !.version = order.version + 1]
            BY <1>2 DEF SaveGuestEdit, Commit
        <3> QED BY ONLY <1>1, <2>1, <3>1, RowColumns DEF Rows
    <2> QED BY <1>2, <2>2, TypeEnd DEF SaveGuestEdit, Commit, TypeInv, TypeOK
<1>3. CASE SavePaymentChoice(r)
    <2>1. input[r] \in Methods
        BY <1>3 DEF SavePaymentChoice, TypeInv, InputsFit, At, AtRead
    <2>2. order' \in Rows
        <3>1. order' = [order EXCEPT !.lines = seen[r].lines, !.pay = input[r]]
            BY <1>3 DEF SavePaymentChoice, Commit
        <3> QED BY ONLY <1>1, <2>1, <3>1, RowColumns DEF Rows
    <2> QED BY <1>3, <2>2, TypeEnd DEF SavePaymentChoice, Commit, TypeInv, TypeOK
<1>4. CASE SavePaymentSplit(r)
    <2>1. input[r] \in Methods
        BY <1>4 DEF SavePaymentSplit, TypeInv, InputsFit, At, AtRead
    <2>2. order' \in Rows
        <3>1. order' = [order EXCEPT !.lines = seen[r].lines, !.pay = input[r],
                                     !.version = seen[r].version + 1]
            BY <1>4 DEF SavePaymentSplit, Commit
        <3> QED BY ONLY <1>1, <2>1, <3>1, RowColumns DEF Rows
    <2> QED BY <1>4, <2>2, TypeEnd DEF SavePaymentSplit, Commit, TypeInv, TypeOK
<1>5. CASE SaveRebuild(r)
    <2>1. input[r] \in Carts
        BY <1>5 DEF SaveRebuild, TypeInv, InputsFit, At, AtRead
    <2>2. order' \in Rows
        <3>1. order' = [order EXCEPT
                !.lines = input[r],
                !.total = IF input[r] # seen[r].total THEN input[r] ELSE order.total,
                !.pay = seen[r].pay,
                !.version = seen[r].version + 1]
            BY <1>5 DEF SaveRebuild, Commit
        <3> QED BY ONLY <1>1, <2>1, <3>1, RowColumns DEF Rows
    <2> QED BY <1>5, <2>2, TypeEnd DEF SaveRebuild, Commit, TypeInv, TypeOK
<1> QED BY <1>2, <1>3, <1>4, <1>5 DEF EditCart

\* The writers of the status.
LEMMA TypeStatus ==
    ASSUME TypeInv, NEW r \in Requests, ChangeStatus(r)
    PROVE  TypeInv'
<1>1. order \in Rows /\ seen[r] \in Rows
    BY DEF TypeInv, TypeOK
<1>2. CASE ConfirmOrder(r)
    <2>1. order' \in Rows
        <3>1. order' = [order EXCEPT !.status = "confirmed"]
            BY <1>2 DEF ConfirmOrder, Commit
        <3> QED BY ONLY <1>1, <3>1, RowColumns DEF Rows, Statuses
    <2>2. /\ kind' = kind /\ reply' = reply /\ tickets' = tickets
          /\ logged' \subseteq {"order.created", "order.confirmed", "order.cancelled"}
          /\ collided' \in BOOLEAN
        BY <1>2 DEF ConfirmOrder, Commit, EventsOf, Overwrites, TypeInv, TypeOK
    <2>3. CASE kind[r] = "auto_send"
        <3>1. Goto(r, "reload")
            BY <1>2, <2>3 DEF ConfirmOrder
        <3>2. TypeOK'
            BY <2>1, <2>2, <3>1 DEF TypeInv, TypeOK, Goto, Steps
        <3>3. InputsFit' /\ KindsFit'
            BY <2>2, <2>3, <3>1
            DEF TypeInv, TypeOK, Goto, InputsFit, KindsFit, AtRead, Holding
        <3> QED BY <3>2, <3>3 DEF TypeInv
    <2>4. CASE kind[r] # "auto_send"
        <3>1. End(r, "saved")
            BY <1>2, <2>4 DEF ConfirmOrder
        <3> QED BY <2>1, <2>2, <3>1, TypeEnd DEF TypeInv, TypeOK
    <2> QED BY <2>3, <2>4
<1>3. CASE RevertToDraft(r)
    <2>1. order' \in Rows
        <3>1. order' = [order EXCEPT !.status = "draft"]
            BY <1>3 DEF RevertToDraft, Commit
        <3> QED BY ONLY <1>1, <3>1, RowColumns DEF Rows, Statuses
    <2> QED BY <1>3, <2>1, TypeEnd
            DEF RevertToDraft, Commit, Overwrites, TypeInv, TypeOK
<1>4. CASE Fulfil(r)
    <2>1. input[r] \in Statuses
        BY <1>4 DEF Fulfil, TypeInv, InputsFit, At, AtRead, Statuses
    <2>2. order' \in Rows
        <3>1. order' = [order EXCEPT !.status = input[r], !.lines = seen[r].lines,
                                     !.pay = seen[r].pay, !.version = seen[r].version + 1]
            BY <1>4 DEF Fulfil, Commit
        <3> QED BY ONLY <1>1, <2>1, <3>1, RowColumns DEF Rows
    <2> QED BY <1>4, <2>2, TypeEnd DEF Fulfil, Commit, Overwrites, TypeInv, TypeOK
<1>5. CASE Cancel(r)
    <2>1. order' \in Rows
        <3>1. order' = [order EXCEPT !.status = "cancelled"]
            BY <1>5 DEF Cancel, Commit
        <3> QED BY ONLY <1>1, <3>1, RowColumns DEF Rows, Statuses
    <2>2. logged' \subseteq {"order.created", "order.confirmed", "order.cancelled"}
        BY <1>5 DEF Cancel, EventsOf, TypeInv, TypeOK
    <2> QED BY <1>5, <2>1, <2>2, TypeEnd DEF Cancel, Commit, Overwrites, TypeInv, TypeOK
<1>6. CASE Delete(r)
    <2>1. order' \in Rows
        <3>1. order' = [order EXCEPT !.live = FALSE]
            BY <1>6 DEF Delete, Commit
        <3> QED BY ONLY <1>1, <3>1, RowColumns DEF Rows
    <2> QED BY <1>6, <2>1, TypeEnd DEF Delete, Commit, TypeInv, TypeOK
<1> QED BY <1>2, <1>3, <1>4, <1>5, <1>6 DEF ChangeStatus

\* The handlers that send.
LEMMA TypeSend ==
    ASSUME TypeInv, NEW r \in Requests, Send(r)
    PROVE  TypeInv'
<1>1. order \in Rows /\ seen[r] \in Rows
    BY DEF TypeInv, TypeOK
<1>2. CASE Reload(r)
    <2>1. kind[r] = "auto_send"
        BY <1>2 DEF Reload, TypeInv, KindsFit
    <2>2. CASE order.live /\ order.status = "confirmed"
        <3>1. TypeOK'
            BY <1>1, <1>2, <2>2 DEF Reload, Load, TypeInv, TypeOK, Steps
        <3>2. InputsFit'
            BY <1>2, <2>1, <2>2 DEF Reload, Load, TypeInv, TypeOK, InputsFit, AtRead
        <3>3. KindsFit'
            BY <1>2, <2>1, <2>2
            DEF Reload, Load, TypeInv, TypeOK, KindsFit, ReadsIn, Holding,
                Confirming, CartWriters
        <3> QED BY <3>1, <3>2, <3>3 DEF TypeInv
    <2>3. CASE ~(order.live /\ order.status = "confirmed")
        BY <1>1, <1>2, <2>3, TypeEnd DEF Reload, TypeInv, TypeOK
    <2> QED BY <2>2, <2>3
<1>3. CASE Claim(r)
    <2>1. order' \in Rows
        <3>1. order' = [order EXCEPT !.status = "sending_to_iiko",
                                     !.version = order.version + 1]
            BY <1>3 DEF Claim, Commit
        <3> QED BY ONLY <1>1, <3>1, RowColumns DEF Rows, Statuses
    <2>2. TypeOK'
        BY <1>3, <2>1 DEF Claim, Commit, Goto, TypeInv, TypeOK, Steps, Holding
    <2>3. InputsFit' /\ KindsFit'
        BY <1>3 DEF Claim, Commit, Goto, At, TypeInv, TypeOK, InputsFit, KindsFit,
                    AtRead, Holding
    <2> QED BY <2>2, <2>3 DEF TypeInv
<1>4. CASE CallIiko(r)
    <2>1. TypeOK'
        BY <1>4 DEF CallIiko, Goto, TypeInv, TypeOK, Steps, Holding
    <2>2. InputsFit' /\ KindsFit'
        BY <1>4 DEF CallIiko, Goto, TypeInv, TypeOK, InputsFit, KindsFit, AtRead, Holding
    <2> QED BY <2>1, <2>2 DEF TypeInv
<1>5. CASE FinishRead(r)
    <2>1. CASE order.live
        <3>1. TypeOK'
            BY <1>1, <1>5, <2>1 DEF FinishRead, Load, TypeInv, TypeOK, Steps, Holding
        <3>2. InputsFit' /\ KindsFit'
            BY <1>5, <2>1 DEF FinishRead, Load, TypeInv, TypeOK, InputsFit, KindsFit,
                              AtRead, Holding
        <3> QED BY <3>1, <3>2 DEF TypeInv
    <2>2. CASE ~order.live
        BY <1>1, <1>5, <2>2, TypeEnd DEF FinishRead, TypeInv, TypeOK
    <2> QED BY <2>1, <2>2
<1>6. CASE FinishWrite(r)
    <2>1. order' \in Rows
        <3>1. order' = [order EXCEPT
                !.status = IF Outcome(r) # seen[r].status THEN Outcome(r) ELSE order.status,
                !.version = seen[r].version + 1,
                !.lines = IF reply[r] THEN seen[r].lines ELSE order.lines,
                !.pay = IF reply[r] THEN seen[r].pay ELSE order.pay]
            BY <1>6 DEF FinishWrite, Commit
        <3>2. Outcome(r) \in Statuses
            BY DEF Outcome, Statuses, KitchenStatuses
        <3> QED BY ONLY <1>1, <3>1, <3>2, RowColumns DEF Rows
    <2>2. collided' \in BOOLEAN
        BY <1>6 DEF FinishWrite, Overwrites, TypeInv, TypeOK
    <2> QED BY <1>6, <2>1, <2>2, TypeEnd DEF FinishWrite, Commit, TypeInv, TypeOK
<1>7. CASE FinishGone(r)
    BY <1>1, <1>7, TypeEnd DEF FinishGone, TypeInv, TypeOK
<1> QED BY <1>2, <1>3, <1>4, <1>5, <1>6, <1>7 DEF Send

\* Every step keeps the invariant.
LEMMA TypeNext == TypeInv /\ [Next]_vars => TypeInv'
<1> SUFFICES ASSUME TypeInv, [Next]_vars PROVE TypeInv'
    OBVIOUS
<1>1. CASE UNCHANGED vars
    BY <1>1 DEF vars, TypeInv, TypeOK, InputsFit, KindsFit, AtRead
<1>2. ASSUME NEW r \in Requests, Refuse(r) \/ Crash(r) PROVE TypeInv'
    BY <1>2, TypeEnd DEF Refuse, Crash, TypeInv, TypeOK
<1> QED BY <1>1, <1>2, TypeRead, TypeCart, TypeStatus, TypeSend DEF Next

\* Type correctness: the invariant TypeOK of the runs, together with what the
\* other proofs need to know of the snapshots and the bodies in flight.
THEOREM Typing == Spec => []TypeInv
BY TypeInit, TypeNext, PTL DEF Spec

\* Every column of the order keeps its type and every handler is at a step it
\* has, whatever the handlers interleave.
THEOREM TypeCorrect == Spec => []TypeOK
<1>1. TypeInv => TypeOK
    BY DEF TypeInv
<1> QED BY <1>1, Typing, PTL

-----------------------------------------------------------------------------
(* "Sending to the kitchen" always has someone behind it. *)

\* What a step of r does not touch: where the other requests are.
LEMMA OthersUntouched ==
    ASSUME TypeInv, NEW r \in Requests, NEW q \in Requests, q # r,
           Read(r) \/ Refuse(r) \/ EditCart(r) \/ ChangeStatus(r) \/ Send(r) \/ Crash(r)
    PROVE  step'[q] = step[q] /\ seen'[q] = seen[q] /\ kind'[q] = kind[q]
<1> USE DEF TypeInv, TypeOK, End, Goto, Load, Commit
<1>1. CASE Read(r) \/ Refuse(r) \/ Crash(r)
    BY <1>1 DEF Read, Refuse, Crash
<1>2. CASE EditCart(r)
    BY <1>2 DEF EditCart, SaveGuestEdit, SavePaymentChoice, SavePaymentSplit, SaveRebuild
<1>3. CASE ChangeStatus(r)
    BY <1>3 DEF ChangeStatus, ConfirmOrder, RevertToDraft, Fulfil, Cancel, Delete
<1>4. CASE Send(r)
    BY <1>4 DEF Send, Reload, Claim, CallIiko, FinishRead, FinishWrite, FinishGone
<1> QED BY <1>1, <1>2, <1>3, <1>4

\* A step of a request that owes nothing, and that does not itself put the
\* order in "sending", keeps whoever owes the status.
LEMMA OwnerKept ==
    ASSUME TypeInv, SendingHasOwner, NEW r \in Requests,
           Read(r) \/ Refuse(r) \/ EditCart(r) \/ ChangeStatus(r) \/ Send(r) \/ Crash(r),
           ~Owes(r), order'.live => order.live,
           order'.status = "sending_to_iiko" => order.status = "sending_to_iiko"
    PROVE  SendingHasOwner'
<1> SUFFICES ASSUME order'.live, order'.status = "sending_to_iiko"
             PROVE  \E q \in Requests : Owes(q)'
    BY DEF SendingHasOwner
<1>1. PICK q \in Requests : Owes(q)
    BY DEF SendingHasOwner
<1>2. q # r
    BY <1>1
<1>3. Owes(q)'
    BY <1>1, <1>2, OthersUntouched DEF Owes
<1> QED BY <1>3

\* No step leaves a claim behind without a send that owes the final write.
LEMMA OwnerNext == TypeInv /\ SendingHasOwner /\ [Next]_vars => SendingHasOwner'
<1> SUFFICES ASSUME TypeInv, SendingHasOwner, [Next]_vars PROVE SendingHasOwner'
    OBVIOUS
<1>1. CASE UNCHANGED vars
    BY <1>1 DEF vars, SendingHasOwner, Owes
<1>2. ASSUME NEW r \in Requests, Read(r) \/ Refuse(r) PROVE SendingHasOwner'
    <2>1. ~Owes(r)
        BY <1>2 DEF Read, Refuse, Owes
    <2>2. order' = order
        BY <1>2 DEF Read, Refuse
    <2> QED BY <1>2, <2>1, <2>2, OwnerKept
<1>3. ASSUME NEW r \in Requests, EditCart(r) PROVE SendingHasOwner'
    <2>1. ~Owes(r)
        BY <1>3 DEF EditCart, SaveGuestEdit, SavePaymentChoice, SavePaymentSplit,
                    SaveRebuild, At, Owes
    <2>2. order'.status = order.status /\ order.live
        BY <1>3 DEF EditCart, SaveGuestEdit, SavePaymentChoice, SavePaymentSplit,
                    SaveRebuild, Commit, TypeInv, TypeOK, Rows
    <2> QED BY <1>3, <2>1, <2>2, OwnerKept
<1>4. ASSUME NEW r \in Requests, ChangeStatus(r) PROVE SendingHasOwner'
    <2>1. ~Owes(r)
        BY <1>4 DEF ChangeStatus, ConfirmOrder, RevertToDraft, Fulfil, Cancel, Delete,
                    At, Owes
    <2>2. order.live /\ (order'.status # order.status =>
                            order'.status \in {"draft", "confirmed", "cancelled"}
                                                 \cup KitchenStatuses)
        BY <1>4 DEF ChangeStatus, ConfirmOrder, RevertToDraft, Fulfil, Cancel, Delete,
                    Commit, At, AtRead, TypeInv, TypeOK, Rows, InputsFit
    <2>3. order'.status = "sending_to_iiko" => order.status = "sending_to_iiko"
        BY <2>2 DEF KitchenStatuses
    <2> QED BY <1>4, <2>1, <2>2, <2>3, OwnerKept
<1>5. ASSUME NEW r \in Requests, Send(r) PROVE SendingHasOwner'
    <2>1. CASE Reload(r)
        <3>1. ~Owes(r) /\ order' = order
            BY <2>1 DEF Reload, Owes
        <3> QED BY <1>5, <3>1, OwnerKept
    <2>2. CASE Claim(r) \/ CallIiko(r)
        <3>1. step'[r] \in {"claimed", "answered"}
            BY <2>2 DEF Claim, CallIiko, Goto, TypeInv, TypeOK
        <3> QED BY <3>1 DEF SendingHasOwner, Owes
    <2>3. CASE FinishRead(r)
        <3>1. order' = order
            BY <2>3 DEF FinishRead
        <3>2. order.live => step'[r] = "finishing" /\ seen'[r] = order
            BY <2>3 DEF FinishRead, Load, TypeInv, TypeOK
        <3> QED BY <3>1, <3>2 DEF SendingHasOwner, Owes
    <2>4. CASE FinishWrite(r)
        <3>1. order.live /\ step[r] = "finishing"
            BY <2>4 DEF FinishWrite, Commit
        <3>2. order'.status =
                IF Outcome(r) # seen[r].status THEN Outcome(r) ELSE order.status
            BY <2>4 DEF FinishWrite, Commit, TypeInv, TypeOK, Rows
        <3>3. Outcome(r) # "sending_to_iiko"
            BY DEF Outcome
        <3>4. CASE seen[r].status = "sending_to_iiko"
            BY <3>2, <3>3, <3>4 DEF SendingHasOwner
        <3>5. CASE seen[r].status # "sending_to_iiko"
            <4>1. ~Owes(r)
                BY <3>1, <3>5 DEF Owes
            <4>2. order'.status = "sending_to_iiko" => order.status = "sending_to_iiko"
                BY <3>2, <3>3
            <4> QED BY <1>5, <3>1, <4>1, <4>2, OwnerKept
        <3> QED BY <3>4, <3>5
    <2>5. CASE FinishGone(r)
        BY <2>5 DEF FinishGone, SendingHasOwner
    <2> QED BY <1>5, <2>1, <2>2, <2>3, <2>4, <2>5 DEF Send
<1>6. ASSUME NEW r \in Requests, Crash(r) PROVE SendingHasOwner'
    <2>1. order' = order /\ kind' = kind /\ step'[r] = "lost"
        BY <1>6 DEF Crash, End, TypeInv, TypeOK
    <2>2. CASE step[r] \in Holding
        <3>1. kind[r] \in Sending
            BY <2>2 DEF TypeInv, KindsFit
        <3> QED BY <2>1, <3>1 DEF SendingHasOwner, Owes
    <2>3. CASE step[r] \notin Holding
        <3>1. ~Owes(r)
            BY <1>6, <2>3 DEF Crash, Owes, Holding
        <3> QED BY <1>6, <2>1, <3>1, OwnerKept
    <2> QED BY <2>2, <2>3
<1> QED BY <1>1, <1>2, <1>3, <1>4, <1>5, <1>6 DEF Next

\* However the handlers interleave, an order in "sending to the kitchen" has a
\* send that will still write its outcome, or that died before it could.
THEOREM SendingOwned == Spec => []SendingHasOwner
<1>1. Init => SendingHasOwner
    BY DEF Init, NewRow, SendingHasOwner
<1> QED BY <1>1, OwnerNext, Typing, PTL DEF Spec

-----------------------------------------------------------------------------
(* What the statuses promise. *)

\* A send that was told "accepted" has a ticket, and the kanban only moves
\* orders that the kitchen has.
TicketInv ==
    /\ SentHasTicket
    /\ \A r \in Requests :
        /\ step[r] \in {"answered", "finishing"} /\ reply[r] => r \in tickets
        /\ AtRead(r, {"fulfil"}) => tickets # {}

\* A claim was made on a confirmed order, and the kanban moves such orders.
EventInv ==
    /\ ConfirmedHasEvent
    /\ \A r \in Requests :
        step[r] \in Holding \/ AtRead(r, {"fulfil"}) => "order.confirmed" \in logged

PromiseInv == TicketInv /\ EventInv

\* A new draft has neither a ticket nor a confirmation.
LEMMA PromiseInit == Init => PromiseInv
BY DEF Init, PromiseInv, TicketInv, EventInv, SentHasTicket, ConfirmedHasEvent, NewRow,
       KitchenStatuses, AtRead, Holding

\* Tickets and events are never taken back.
LEMMA OnlyAdded ==
    ASSUME TypeInv, NEW r \in Requests,
           Read(r) \/ Refuse(r) \/ EditCart(r) \/ ChangeStatus(r) \/ Send(r) \/ Crash(r)
    PROVE  /\ tickets \subseteq tickets' /\ logged \subseteq logged'
           /\ \A q \in Requests \ {r} : reply'[q] = reply[q]
<1> USE DEF TypeInv, TypeOK, Commit
<1>1. CASE Read(r) \/ Refuse(r) \/ Crash(r)
    BY <1>1 DEF Read, Refuse, Crash
<1>2. CASE EditCart(r)
    BY <1>2 DEF EditCart, SaveGuestEdit, SavePaymentChoice, SavePaymentSplit, SaveRebuild
<1>3. CASE ChangeStatus(r)
    BY <1>3 DEF ChangeStatus, ConfirmOrder, RevertToDraft, Fulfil, Cancel, Delete
<1>4. CASE Send(r)
    BY <1>4 DEF Send, Reload, Claim, CallIiko, FinishRead, FinishWrite, FinishGone
<1> QED BY <1>1, <1>2, <1>3, <1>4

\* A step that keeps what PromiseInv says of the row and of its own request
\* keeps what it says of the others.
LEMMA PromiseKept ==
    ASSUME TypeInv, PromiseInv, NEW r \in Requests,
           Read(r) \/ Refuse(r) \/ EditCart(r) \/ ChangeStatus(r) \/ Send(r) \/ Crash(r),
           order'.status \in KitchenStatuses => tickets' # {},
           order'.status \in {"confirmed", "sending_to_iiko"} \cup KitchenStatuses
               => "order.confirmed" \in logged',
           step'[r] \in {"answered", "finishing"} /\ reply'[r] => r \in tickets',
           AtRead(r, {"fulfil"})' => tickets' # {},
           step'[r] \in Holding \/ AtRead(r, {"fulfil"})' => "order.confirmed" \in logged'
    PROVE  PromiseInv'
<1>1. tickets \subseteq tickets' /\ logged \subseteq logged'
    BY OnlyAdded
<1>2. ASSUME NEW q \in Requests, q # r
      PROVE  step'[q] = step[q] /\ kind'[q] = kind[q] /\ reply'[q] = reply[q]
    BY <1>2, OthersUntouched, OnlyAdded
<1>3. SentHasTicket' /\ ConfirmedHasEvent'
    BY DEF SentHasTicket, ConfirmedHasEvent
<1>4. ASSUME NEW q \in Requests
      PROVE  /\ step'[q] \in {"answered", "finishing"} /\ reply'[q] => q \in tickets'
             /\ AtRead(q, {"fulfil"})' => tickets' # {}
             /\ step'[q] \in Holding \/ AtRead(q, {"fulfil"})' => "order.confirmed" \in logged'
    <2>1. CASE q = r
        BY <2>1
    <2>2. CASE q # r
        BY <1>1, <1>2, <2>2 DEF PromiseInv, TicketInv, EventInv, AtRead
    <2> QED BY <2>1, <2>2
<1> QED BY <1>3, <1>4 DEF PromiseInv, TicketInv, EventInv

\* Every handler keeps what the status promises: the event of a confirmed
\* order, the ticket of a sent one.
LEMMA PromiseNext == TypeInv /\ PromiseInv /\ [Next]_vars => PromiseInv'
<1> SUFFICES ASSUME TypeInv, PromiseInv, [Next]_vars PROVE PromiseInv'
    OBVIOUS
<1> USE DEF AtRead, At
<1>1. CASE UNCHANGED vars
    BY <1>1 DEF vars, PromiseInv, TicketInv, EventInv, SentHasTicket, ConfirmedHasEvent
<1>2. ASSUME NEW r \in Requests, Read(r) PROVE PromiseInv'
    <2>1. /\ order' = order /\ tickets' = tickets /\ logged' = logged
          /\ step'[r] = "read"
        BY <1>2 DEF Read, Load, TypeInv, TypeOK
    <2>2. kind'[r] = "fulfil" => order.status \in KitchenStatuses
        BY <1>2 DEF Read, ReadsIn, Confirming, KitchenStatuses, TypeInv, TypeOK
    <2>3. order.status \in KitchenStatuses => tickets # {} /\ "order.confirmed" \in logged
        BY DEF PromiseInv, TicketInv, EventInv, SentHasTicket, ConfirmedHasEvent
    <2>4. order.status \in {"confirmed", "sending_to_iiko"} \cup KitchenStatuses
            => "order.confirmed" \in logged
        BY DEF PromiseInv, EventInv, ConfirmedHasEvent
    <2> QED BY ONLY <1>2, <2>1, <2>2, <2>3, <2>4, PromiseKept, TypeInv, PromiseInv
            DEF Holding, AtRead
<1>3. ASSUME NEW r \in Requests, Refuse(r) \/ Crash(r) PROVE PromiseInv'
    <2>1. /\ order' = order /\ tickets' = tickets /\ logged' = logged
          /\ step'[r] \in {"rejected", "lost"}
        BY <1>3 DEF Refuse, Crash, End, TypeInv, TypeOK
    <2> QED BY <1>3, <2>1, PromiseKept
            DEF Holding, PromiseInv, TicketInv, EventInv, SentHasTicket, ConfirmedHasEvent
<1>4. ASSUME NEW r \in Requests, EditCart(r) PROVE PromiseInv'
    <2>1. /\ order'.status = order.status /\ tickets' = tickets /\ logged' = logged
          /\ step'[r] = "saved"
        BY <1>4 DEF EditCart, SaveGuestEdit, SavePaymentChoice, SavePaymentSplit,
                    SaveRebuild, Commit, End, TypeInv, TypeOK, Rows
    <2> QED BY <1>4, <2>1, PromiseKept
            DEF Holding, PromiseInv, TicketInv, EventInv, SentHasTicket, ConfirmedHasEvent
<1>5. ASSUME NEW r \in Requests, ChangeStatus(r) PROVE PromiseInv'
    <2>1. /\ tickets' = tickets /\ logged \subseteq logged'
          /\ step'[r] \in {"saved", "reload"}
        BY <1>5, OnlyAdded
        DEF ChangeStatus, ConfirmOrder, RevertToDraft, Fulfil, Cancel, Delete,
            Commit, End, Goto, TypeInv, TypeOK
    <2>2. \/ order'.status = "confirmed" /\ "order.confirmed" \in logged'
          \/ order'.status \in {"draft", "cancelled"}
          \/ order'.status = order.status
          \/ order'.status \in KitchenStatuses /\ AtRead(r, {"fulfil"})
        <3>1. CASE ConfirmOrder(r)
            <4>1. EventsOf(kind[r]) = {"order.confirmed"}
                BY <3>1 DEF ConfirmOrder, EventsOf, Confirming
            <4>2. order'.status = "confirmed"
                BY <3>1 DEF ConfirmOrder, Commit, TypeInv, TypeOK, Rows
            <4> QED BY <3>1, <4>1, <4>2 DEF ConfirmOrder
        <3>2. CASE RevertToDraft(r) \/ Cancel(r) \/ Delete(r)
            BY <3>2 DEF RevertToDraft, Cancel, Delete, Commit, TypeInv, TypeOK, Rows
        <3>3. CASE Fulfil(r)
            BY <3>3 DEF Fulfil, Commit, TypeInv, TypeOK, Rows, InputsFit
        <3> QED BY <1>5, <3>1, <3>2, <3>3 DEF ChangeStatus
    <2>3. /\ AtRead(r, {"fulfil"}) => tickets # {} /\ "order.confirmed" \in logged
          /\ order.status \in KitchenStatuses => tickets # {}
          /\ order.status \in {"confirmed", "sending_to_iiko"} \cup KitchenStatuses
                => "order.confirmed" \in logged
        BY DEF PromiseInv, TicketInv, EventInv, SentHasTicket, ConfirmedHasEvent
    <2> QED BY ONLY <1>5, <2>1, <2>2, <2>3, PromiseKept, TypeInv, PromiseInv
            DEF Holding, AtRead, KitchenStatuses
<1>6. ASSUME NEW r \in Requests, Send(r) PROVE PromiseInv'
    <2>1. /\ order.status \in KitchenStatuses => tickets # {}
          /\ order.status \in {"confirmed", "sending_to_iiko"} \cup KitchenStatuses
                => "order.confirmed" \in logged
          /\ step[r] \in {"answered", "finishing"} /\ reply[r] => r \in tickets
          /\ step[r] \in Holding => "order.confirmed" \in logged
        BY DEF PromiseInv, TicketInv, EventInv, SentHasTicket, ConfirmedHasEvent
    <2>2. tickets \subseteq tickets' /\ logged' = logged
        BY <1>6, OnlyAdded
        DEF Send, Reload, Claim, CallIiko, FinishRead, FinishWrite, FinishGone
    <2>3. CASE Reload(r)
        <3>1. /\ order' = order /\ step'[r] \in {"read", "done"}
              /\ kind'[r] = "auto_send"
            BY <2>3 DEF Reload, Load, End, TypeInv, TypeOK, KindsFit
        <3> QED BY <1>6, <2>1, <2>2, <3>1, PromiseKept DEF Holding
    <2>4. CASE Claim(r)
        <3>1. /\ order'.status = "sending_to_iiko" /\ order.status = "confirmed"
              /\ step'[r] = "claimed"
            BY <2>4 DEF Claim, Claimable, Commit, Goto, TypeInv, TypeOK, Rows
        <3> QED BY <1>6, <2>1, <2>2, <3>1, PromiseKept DEF KitchenStatuses
    <2>5. CASE CallIiko(r)
        <3>1. /\ order' = order /\ step'[r] = "answered" /\ step[r] = "claimed"
              /\ reply'[r] => r \in tickets'
            BY <2>5 DEF CallIiko, Goto, TypeInv, TypeOK
        <3> QED BY <1>6, <2>1, <2>2, <3>1, PromiseKept DEF Holding
    <2>6. CASE FinishRead(r) \/ FinishGone(r)
        <3>1. /\ order' = order /\ step'[r] \in {"finishing", "done"}
              /\ step[r] \in {"answered", "finishing"} /\ reply'[r] = reply[r]
            BY <2>6 DEF FinishRead, FinishGone, Load, End, TypeInv, TypeOK
        <3> QED BY <1>6, <2>1, <2>2, <3>1, PromiseKept DEF Holding
    <2>7. CASE FinishWrite(r)
        <3>1. /\ step[r] = "finishing" /\ step'[r] = "done"
              /\ order'.status \in {Outcome(r), order.status}
            BY <2>7 DEF FinishWrite, Commit, End, TypeInv, TypeOK, Rows
        <3>2. Outcome(r) = "confirmed" \/ r \in tickets
            BY <2>1, <3>1 DEF Outcome
        <3>3. "order.confirmed" \in logged'
            BY <2>1, <2>2, <3>1 DEF Holding
        <3>4. order'.status \in KitchenStatuses => tickets' # {}
            BY <2>1, <2>2, <3>1, <3>2 DEF KitchenStatuses
        <3> QED BY <1>6, <3>1, <3>3, <3>4, PromiseKept DEF Holding
    <2> QED BY <1>6, <2>3, <2>4, <2>5, <2>6, <2>7 DEF Send
<1> QED BY <1>1, <1>2, <1>3, <1>4, <1>5, <1>6 DEF Next

\* The promises of the statuses hold in every reachable state.
LEMMA Promises == Spec => []PromiseInv
BY PromiseInit, PromiseNext, Typing, PTL DEF Spec

\* The kitchen's statuses are shown only for an order that iiko accepted.
THEOREM SentIsTicketed == Spec => []SentHasTicket
<1>1. PromiseInv => SentHasTicket
    BY DEF PromiseInv, TicketInv
<1> QED BY <1>1, Promises, PTL

\* Every path that confirms an order records order.confirmed with it.
THEOREM ConfirmedIsRecorded == Spec => []ConfirmedHasEvent
<1>1. PromiseInv => ConfirmedHasEvent
    BY DEF PromiseInv, EventInv
<1> QED BY <1>1, Promises, PTL

-----------------------------------------------------------------------------
(* Cancelled orders. *)

\* One step out of "cancelled": the final write of a send, or a write over a
\* status that its writer had not seen.
LEMMA RevivalStep ==
    ASSUME TypeInv, [Next]_vars, order.status = "cancelled", order'.status # "cancelled"
    PROVE  collided' \/ \E r \in Requests : step[r] = "finishing" /\ step'[r] = "done"
<1>1. PICK r \in Requests :
        Read(r) \/ Refuse(r) \/ EditCart(r) \/ ChangeStatus(r) \/ Send(r) \/ Crash(r)
    BY DEF Next, vars
<1>2. ~(Read(r) \/ Refuse(r) \/ Crash(r))
    BY DEF Read, Refuse, Crash
<1>3. ~EditCart(r)
    BY DEF EditCart, SaveGuestEdit, SavePaymentChoice, SavePaymentSplit, SaveRebuild,
           Commit, TypeInv, TypeOK, Rows
<1>4. CASE ChangeStatus(r)
    <2>1. ~Cancel(r) /\ ~Delete(r)
        BY DEF Cancel, Delete, Commit, TypeInv, TypeOK, Rows
    <2>2. ASSUME ConfirmOrder(r) \/ RevertToDraft(r) \/ Fulfil(r) PROVE collided'
        <3>1. /\ step[r] = "read"
              /\ seen[r].status = "draft" \/ kind[r] \in {"revert", "fulfil"}
            BY <2>2 DEF ConfirmOrder, RevertToDraft, Fulfil, At
        <3>2. seen[r].status # "cancelled"
            BY <3>1 DEF TypeInv, KindsFit, ReadsIn, Confirming
        <3> QED BY <2>2, <3>2 DEF ConfirmOrder, RevertToDraft, Fulfil, Overwrites
    <2> QED BY <1>4, <2>1, <2>2 DEF ChangeStatus
<1>5. CASE Send(r)
    <2>1. ~(Reload(r) \/ Claim(r) \/ CallIiko(r) \/ FinishRead(r) \/ FinishGone(r))
        BY DEF Reload, Claim, Claimable, CallIiko, FinishRead, FinishGone
    <2>2. FinishWrite(r)
        BY <1>5, <2>1 DEF Send
    <2>3. step[r] = "finishing" /\ step'[r] = "done"
        BY <2>2 DEF FinishWrite, End, TypeInv, TypeOK
    <2> QED BY <2>3
<1> QED BY <1>1, <1>2, <1>3, <1>4, <1>5

\* No handler that has seen a cancelled order brings it back, except the send
\* that was under way when it was cancelled.
THEOREM CancelledStays == Spec => CancelUndoneOnlyBySend
<1>1. TypeInv /\ [Next]_vars =>
        [order.status = "cancelled" /\ order'.status # "cancelled"
            => collided' \/ \E r \in Requests : step[r] = "finishing" /\ step'[r] = "done"]_vars
    BY RevivalStep
<1> QED BY <1>1, Typing, PTL DEF Spec, CancelUndoneOnlyBySend

-----------------------------------------------------------------------------
(* One ticket per order. *)

\* Nothing has happened that DuplicateNeedsCause names as a cause.
Clean == ~collided /\ \A r \in Requests : ~Unreported(r)

\* While that is so the claim is exclusive: one request holds it, the order is
\* in "sending" or was cancelled under it, and the only ticket is its own;
\* and an order that nobody is sending has a ticket only if it shows one.
ClaimIsExclusive ==
    /\ \A q, r \in Requests : step[q] \in Holding /\ step[r] \in Holding => q = r
    /\ \A r \in Requests : step[r] \in Holding =>
        /\ order.live => order.status \in {"sending_to_iiko", "cancelled"}
        /\ step[r] = "finishing" => seen[r].status \in {"sending_to_iiko", "cancelled"}
        /\ tickets \subseteq {r}
    /\ \/ \E r \in Requests : step[r] \in Holding
       \/ tickets = {}
       \/ ~order.live
       \/ order.status \in KitchenStatuses \cup {"cancelled"}
    /\ \A q, r \in tickets : q = r

TicketsOfSenders ==
    \A r \in tickets : step[r] \in {"answered", "finishing", "done", "lost"}

ClaimInv == TicketsOfSenders /\ (Clean => ClaimIsExclusive)

\* Nobody has claimed a new draft.
LEMMA ClaimInit == Init => ClaimInv
BY DEF Init, ClaimInv, TicketsOfSenders, ClaimIsExclusive, Holding

\* A request that has called iiko stays at a step after the call.
LEMMA TicketsNext ==
    ASSUME TypeInv, TicketsOfSenders, NEW r \in Requests,
           Read(r) \/ Refuse(r) \/ EditCart(r) \/ ChangeStatus(r) \/ Send(r) \/ Crash(r)
    PROVE  TicketsOfSenders'
<1>1. tickets' \subseteq tickets \cup {r} /\ tickets' \subseteq Requests
    <2> USE DEF TypeInv, TypeOK, Commit
    <2>1. CASE Read(r) \/ Refuse(r) \/ Crash(r)
        BY <2>1 DEF Read, Refuse, Crash
    <2>2. CASE EditCart(r)
        BY <2>2 DEF EditCart, SaveGuestEdit, SavePaymentChoice, SavePaymentSplit, SaveRebuild
    <2>3. CASE ChangeStatus(r)
        BY <2>3 DEF ChangeStatus, ConfirmOrder, RevertToDraft, Fulfil, Cancel, Delete
    <2>4. CASE Send(r)
        BY <2>4 DEF Send, Reload, Claim, CallIiko, FinishRead, FinishWrite, FinishGone
    <2> QED BY <2>1, <2>2, <2>3, <2>4
<1>2. r \in tickets' => step'[r] \in {"answered", "finishing", "done", "lost"}
    <2> USE DEF TypeInv, TypeOK, Commit, End, Goto, Load, TicketsOfSenders
    <2>1. CASE Read(r) \/ Refuse(r) \/ Crash(r)
        BY <2>1 DEF Read, Refuse, Crash
    <2>2. CASE EditCart(r)
        BY <2>2 DEF EditCart, SaveGuestEdit, SavePaymentChoice, SavePaymentSplit,
                    SaveRebuild, At
    <2>3. CASE ChangeStatus(r)
        BY <2>3 DEF ChangeStatus, ConfirmOrder, RevertToDraft, Fulfil, Cancel, Delete, At
    <2>4. CASE Send(r)
        BY <2>4 DEF Send, Reload, Claim, CallIiko, FinishRead, FinishWrite, FinishGone, At
    <2> QED BY <2>1, <2>2, <2>3, <2>4
<1> QED BY <1>1, <1>2, OthersUntouched DEF TicketsOfSenders, TypeInv, TypeOK

\* What spoils the argument stays: a step to a clean state starts in one.
LEMMA CleanBefore ==
    ASSUME TypeInv, TicketsOfSenders, NEW r \in Requests,
           Read(r) \/ Refuse(r) \/ EditCart(r) \/ ChangeStatus(r) \/ Send(r) \/ Crash(r),
           Clean'
    PROVE  Clean
<1>1. ~collided
    <2> USE DEF Clean
    <2>1. CASE Read(r) \/ Refuse(r) \/ Crash(r)
        BY <2>1 DEF Read, Refuse, Crash
    <2>2. CASE EditCart(r)
        BY <2>2 DEF EditCart, SaveGuestEdit, SavePaymentChoice, SavePaymentSplit, SaveRebuild
    <2>3. CASE ChangeStatus(r)
        BY <2>3 DEF ChangeStatus, ConfirmOrder, RevertToDraft, Fulfil, Cancel, Delete
    <2>4. CASE Send(r)
        BY <2>4 DEF Send, Reload, Claim, CallIiko, FinishRead, FinishWrite, FinishGone
    <2> QED BY <2>1, <2>2, <2>3, <2>4
<1>2. ASSUME NEW q \in Requests, Unreported(q), q # r PROVE FALSE
    BY <1>2, OthersUntouched, OnlyAdded DEF Clean, Unreported
<1>3. ASSUME Unreported(r) PROVE FALSE
    <2>1. r \in tickets' /\ step[r] \in {"answered", "finishing", "done", "lost"}
        BY <1>3, OnlyAdded DEF Unreported, TicketsOfSenders
    <2>2. reply'[r] = reply[r] /\ step[r] # "lost"
        <3> USE <2>1 DEF TypeInv, TypeOK, Commit, At, Holding
        <3>1. CASE Read(r) \/ Refuse(r) \/ Crash(r)
            BY <3>1 DEF Read, Refuse, Crash
        <3>2. CASE EditCart(r)
            BY <3>2 DEF EditCart, SaveGuestEdit, SavePaymentChoice, SavePaymentSplit,
                        SaveRebuild
        <3>3. CASE ChangeStatus(r)
            BY <3>3 DEF ChangeStatus, ConfirmOrder, RevertToDraft, Fulfil, Cancel, Delete
        <3>4. CASE Send(r)
            BY <3>4 DEF Send, Reload, Claim, CallIiko, FinishRead, FinishWrite, FinishGone
        <3> QED BY <3>1, <3>2, <3>3, <3>4
    <2> QED BY <1>3, <2>1, <2>2 DEF Clean, Unreported
<1> QED BY <1>1, <1>2, <1>3 DEF Clean

\* A step outside the sending of orders, from a row that no one is sending
\* (or that stays as it is), keeps the claim exclusive.
LEMMA ClaimKept ==
    ASSUME TypeInv, ClaimIsExclusive, NEW r \in Requests,
           Read(r) \/ Refuse(r) \/ EditCart(r) \/ ChangeStatus(r) \/ Reload(r),
           order'.live => order.live,
           \/ order'.status = order.status
           \/ order'.status = "cancelled"
           \/ order.live /\ order.status \in {"draft", "confirmed"}
           \/ order'.status \in KitchenStatuses /\ order.live /\ order.status \in KitchenStatuses
    PROVE  ClaimIsExclusive'
<1>1. step[r] \notin Holding /\ step'[r] \notin Holding /\ tickets' = tickets
    <2> USE DEF TypeInv, TypeOK, Commit, End, Goto, Load, At, Holding
    <2>1. CASE Read(r) \/ Refuse(r) \/ Reload(r)
        BY <2>1 DEF Read, Refuse, Reload
    <2>2. CASE EditCart(r)
        BY <2>2 DEF EditCart, SaveGuestEdit, SavePaymentChoice, SavePaymentSplit, SaveRebuild
    <2>3. CASE ChangeStatus(r)
        BY <2>3 DEF ChangeStatus, ConfirmOrder, RevertToDraft, Fulfil, Cancel, Delete
    <2> QED BY <2>1, <2>2, <2>3
<1>2. ASSUME NEW q \in Requests, q # r PROVE step'[q] = step[q] /\ seen'[q] = seen[q]
    BY <1>2, OthersUntouched DEF Send
<1>3. ASSUME NEW q \in Requests, step'[q] \in Holding
      PROVE  step[q] \in Holding /\ q # r /\ seen'[q] = seen[q] /\ step'[q] = step[q]
    BY <1>1, <1>2, <1>3
<1>4. ASSUME NEW q \in Requests, step'[q] \in Holding
      PROVE  /\ order'.live => order'.status \in {"sending_to_iiko", "cancelled"}
             /\ step'[q] = "finishing" => seen'[q].status \in {"sending_to_iiko", "cancelled"}
             /\ tickets' \subseteq {q}
    BY <1>1, <1>3, <1>4 DEF ClaimIsExclusive, KitchenStatuses
<1>5. ASSUME NEW q \in Requests, NEW p \in Requests,
             step'[q] \in Holding, step'[p] \in Holding
      PROVE  q = p
    BY <1>3, <1>5 DEF ClaimIsExclusive
<1>6. \/ \E q \in Requests : step'[q] \in Holding
      \/ tickets' = {}
      \/ ~order'.live
      \/ order'.status \in KitchenStatuses \cup {"cancelled"}
    <2>1. CASE \E q \in Requests : step[q] \in Holding
        BY <1>1, <1>2, <2>1
    <2>2. CASE ~\E q \in Requests : step[q] \in Holding
        BY <1>1, <2>2 DEF ClaimIsExclusive, KitchenStatuses
    <2> QED BY <2>1, <2>2
<1> QED BY <1>1, <1>4, <1>5, <1>6 DEF ClaimIsExclusive

\* A status is written, in a clean step, only over the status that was seen.
LEMMA CleanStatus ==
    ASSUME TypeInv, NEW r \in Requests, ChangeStatus(r), Clean'
    PROVE  /\ order.live
           /\ \/ order'.status = order.status
              \/ order'.status = "cancelled"
              \/ order.status \in {"draft", "confirmed"}
              \/ order'.status \in KitchenStatuses /\ order.status \in KitchenStatuses
<1>1. CASE ConfirmOrder(r)
    BY <1>1 DEF ConfirmOrder, Commit, Overwrites, Clean
<1>2. CASE RevertToDraft(r)
    <2>1. seen[r].status = "confirmed"
        BY <1>2 DEF RevertToDraft, At, TypeInv, KindsFit, ReadsIn, Confirming
    <2> QED BY <1>2, <2>1 DEF RevertToDraft, Commit, Overwrites, Clean
<1>3. CASE Fulfil(r)
    <2>1. seen[r].status \in KitchenStatuses
        BY <1>3 DEF Fulfil, At, TypeInv, KindsFit, ReadsIn, Confirming, KitchenStatuses
    <2>2. input[r] \in KitchenStatuses
        BY <1>3 DEF Fulfil, At, AtRead, TypeInv, InputsFit
    <2> QED BY <1>3, <2>1, <2>2
            DEF Fulfil, Commit, Overwrites, Clean, TypeInv, TypeOK, Rows
<1>4. CASE Cancel(r) \/ Delete(r)
    BY <1>4 DEF Cancel, Delete, Commit, TypeInv, TypeOK, Rows
<1> QED BY <1>1, <1>2, <1>3, <1>4 DEF ChangeStatus

\* The steps of a send, from the claim to the final write.
LEMMA ClaimSend ==
    ASSUME TypeInv, TicketsOfSenders, ClaimIsExclusive, NEW r \in Requests,
           Claim(r) \/ CallIiko(r) \/ FinishRead(r) \/ FinishWrite(r) \/ FinishGone(r)
               \/ Crash(r),
           Clean'
    PROVE  ClaimIsExclusive'
<1>1. ASSUME NEW q \in Requests, q # r PROVE step'[q] = step[q] /\ seen'[q] = seen[q]
    BY <1>1, OthersUntouched DEF Send
<1>2. CASE Claim(r)
    <2>1. order.live /\ order.status = "confirmed" /\ tickets' = tickets
        BY <1>2 DEF Claim, Claimable, Commit
    <2>2. ~(\E q \in Requests : step[q] \in Holding) /\ tickets = {}
        BY <2>1 DEF ClaimIsExclusive, KitchenStatuses
    <2>3. order'.status = "sending_to_iiko" /\ step'[r] = "claimed"
        BY <1>2 DEF Claim, Commit, Goto, TypeInv, TypeOK, Rows
    <2> QED BY <1>1, <2>1, <2>2, <2>3 DEF ClaimIsExclusive, Holding
<1>3. CASE CallIiko(r)
    <2>1. step[r] = "claimed" /\ step'[r] = "answered" /\ order' = order
        BY <1>3 DEF CallIiko, Goto, TypeInv, TypeOK
    <2>2. tickets' \subseteq tickets \cup {r} /\ tickets \subseteq {r}
        BY <1>3, <2>1 DEF CallIiko, ClaimIsExclusive, Holding
    <2>3. ASSUME NEW q \in Requests, step'[q] \in Holding PROVE q = r
        BY <1>1, <2>1, <2>3 DEF ClaimIsExclusive, Holding
    <2> QED BY <2>1, <2>2, <2>3 DEF ClaimIsExclusive, Holding
<1>4. CASE FinishRead(r)
    <2>1. step[r] = "answered" /\ order' = order /\ tickets' = tickets
        BY <1>4 DEF FinishRead
    <2>2. /\ order.live => step'[r] = "finishing" /\ seen'[r] = order
          /\ ~order.live => step'[r] = "done"
        BY <1>4 DEF FinishRead, Load, End, TypeInv, TypeOK
    <2>3. ASSUME NEW q \in Requests, step'[q] \in Holding PROVE q = r /\ order.live
        BY <1>1, <2>1, <2>2, <2>3 DEF ClaimIsExclusive, Holding
    <2> QED BY <2>1, <2>2, <2>3 DEF ClaimIsExclusive, Holding
<1>5. CASE FinishWrite(r) \/ FinishGone(r) \/ Crash(r)
    <2>1. /\ step'[r] \in {"done", "lost"} /\ tickets' = tickets /\ reply' = reply
          /\ kind' = kind
        BY <1>5 DEF FinishWrite, FinishGone, Crash, Commit, End, TypeInv, TypeOK
    <2>2. CASE step[r] \in Holding
        <3>1. ASSUME NEW q \in Requests PROVE step'[q] \notin Holding
            BY <1>1, <2>1, <2>2, <3>1 DEF ClaimIsExclusive, Holding
        <3>2. tickets \subseteq {r}
            BY <2>2 DEF ClaimIsExclusive
        <3>3. tickets # {} => step'[r] = "done" /\ reply[r]
            <4>1. tickets # {} => r \in tickets'
                BY <2>1, <3>2
            <4>2. r \in tickets' => reply'[r] /\ step'[r] # "lost"
                BY DEF Clean, Unreported
            <4> QED BY <2>1, <4>1, <4>2
        <3>4. CASE FinishWrite(r)
            <4>1. seen[r].status \in {"sending_to_iiko", "cancelled"}
                BY <3>4 DEF FinishWrite, ClaimIsExclusive, Holding
            <4>2. reply[r] => order'.status = "sent_to_iiko"
                BY <3>4, <4>1 DEF FinishWrite, Commit, Outcome, TypeInv, TypeOK, Rows
            <4> QED BY <2>1, <3>1, <3>2, <3>3, <3>4, <4>2
                    DEF ClaimIsExclusive, KitchenStatuses
        <3>5. CASE FinishGone(r)
            BY <2>1, <3>1, <3>2, <3>5 DEF FinishGone, ClaimIsExclusive
        <3>6. CASE Crash(r)
            <4>1. step'[r] = "lost"
                BY <3>6 DEF Crash, End, TypeInv, TypeOK
            <4> QED BY <2>1, <3>1, <3>3, <4>1 DEF ClaimIsExclusive
        <3> QED BY <1>5, <3>4, <3>5, <3>6
    <2>3. CASE step[r] \notin Holding
        <3>1. order' = order
            BY <1>5, <2>3 DEF FinishWrite, FinishGone, Crash, Holding
        <3>2. ASSUME NEW q \in Requests
              PROVE  (step'[q] \in Holding <=> step[q] \in Holding)
                     /\ (step'[q] \in Holding => seen'[q] = seen[q] /\ step'[q] = step[q])
            BY <1>1, <2>1, <2>3 DEF Holding
        <3> QED BY <2>1, <3>1, <3>2 DEF ClaimIsExclusive
    <2> QED BY <2>2, <2>3
<1> QED BY <1>2, <1>3, <1>4, <1>5

\* As long as no status was overwritten unseen and no ticket went unreported,
\* the conditional UPDATE lets one send at a time hold the claim.
LEMMA ClaimNext == TypeInv /\ ClaimInv /\ [Next]_vars => ClaimInv'
<1> SUFFICES ASSUME TypeInv, ClaimInv, [Next]_vars PROVE ClaimInv'
    OBVIOUS
<1>1. CASE UNCHANGED vars
    BY <1>1 DEF vars, ClaimInv, TicketsOfSenders, Clean, Unreported, ClaimIsExclusive
<1>2. CASE Next
    <2>1. PICK r \in Requests :
            Read(r) \/ Refuse(r) \/ EditCart(r) \/ ChangeStatus(r) \/ Send(r) \/ Crash(r)
        BY <1>2 DEF Next
    <2>2. TicketsOfSenders'
        BY <2>1, TicketsNext DEF ClaimInv
    <2>3. ASSUME Clean' PROVE ClaimIsExclusive'
        <3>1. ClaimIsExclusive
            BY <2>1, <2>3, CleanBefore DEF ClaimInv
        <3>2. CASE Read(r) \/ Refuse(r) \/ Reload(r)
            <4>1. order' = order
                BY <3>2 DEF Read, Refuse, Reload
            <4> QED BY <3>1, <3>2, <4>1, ClaimKept
        <3>3. CASE EditCart(r)
            <4>1. order'.status = order.status /\ order.live
                BY <3>3 DEF EditCart, SaveGuestEdit, SavePaymentChoice, SavePaymentSplit,
                            SaveRebuild, Commit, TypeInv, TypeOK, Rows
            <4> QED BY <3>1, <3>3, <4>1, ClaimKept
        <3>4. CASE ChangeStatus(r)
            BY <2>3, <3>1, <3>4, CleanStatus, ClaimKept
        <3>5. CASE (Send(r) /\ ~Reload(r)) \/ Crash(r)
            BY <2>3, <3>1, <3>5, ClaimSend DEF Send, ClaimInv
        <3> QED BY <2>1, <3>2, <3>3, <3>4, <3>5
    <2> QED BY <2>2, <2>3 DEF ClaimInv
<1> QED BY <1>1, <1>2

\* A clean history has at most one ticket.
LEMMA OneTicket == TypeInv /\ ClaimInv => DuplicateNeedsCause
<1> SUFFICES ASSUME TypeInv, ClaimInv, Clean PROVE ~(Cardinality(tickets) > 1)
    BY DEF DuplicateNeedsCause, Clean
<1>1. \A q, r \in tickets : q = r
    BY DEF ClaimInv, ClaimIsExclusive
<1>2. CASE tickets = {}
    BY <1>2, FS_EmptySet
<1>3. CASE tickets # {}
    <2>1. PICK r \in tickets : TRUE
        BY <1>3
    <2>2. tickets = {r}
        BY <1>1, <2>1
    <2> QED BY <2>2, FS_Singleton
<1> QED BY <1>2, <1>3

\* The kitchen gets a second ticket for an order only if iiko's acceptance was
\* not reported or not recorded, or a status was written blindly: the claim
\* itself is never granted twice.
THEOREM DuplicateHasCause == Spec => []DuplicateNeedsCause
BY ClaimInit, ClaimNext, OneTicket, Typing, PTL DEF Spec

-----------------------------------------------------------------------------
(* The handlers implement KitchenTicket. *)

\* Where request r is, and with it what KitchenTicket sees of r.
LEMMA SendsMove ==
    ASSUME TypeInv, NEW r \in Requests, NEW s \in Steps, step' = [step EXCEPT ![r] = s]
    PROVE  Sends' = [Sends EXCEPT ![r] = Progress(s)] /\ Sends[r] = Progress(step[r])
BY DEF TypeInv, TypeOK, Sends

\* What a status shows.
LEMMA WhatIsShown ==
    /\ ~order.live <=> ShownStatus = "gone"
    /\ order.live => CASE order.status = "sending_to_iiko" -> ShownStatus = "sending"
                       [] order.status = "cancelled" -> ShownStatus = "cancelled"
                       [] order.status \in KitchenStatuses -> ShownStatus = "sent"
                       [] OTHER -> ShownStatus = "open"
BY DEF ShownStatus, KitchenStatuses

\* A step that moves a request among the steps KitchenTicket does not tell
\* apart, and leaves the row as it shows, is not seen.
LEMMA Unseen ==
    ASSUME TypeInv, NEW r \in Requests, NEW s \in Steps, step' = [step EXCEPT ![r] = s],
           Progress(s) = Progress(step[r]), ShownStatus' = ShownStatus, tickets' = tickets
    PROVE  UNCHANGED Kitchen!kitchenVars
<1>1. Sends' = Sends
    BY SendsMove DEF Sends
<1> QED BY <1>1 DEF Kitchen!kitchenVars

\* A change of the row by a handler that is not sending.
LEMMA ChangeIsChange ==
    ASSUME TypeInv, PromiseInv, NEW r \in Requests, ChangeStatus(r)
    PROVE  Kitchen!Change
<1> USE DEF Kitchen!Change, Kitchen!Honest, KitchenStatuses
<1>1. order.live /\ tickets' = tickets /\ ShownStatus # "gone" /\ order \in Rows
    BY WhatIsShown
    DEF ChangeStatus, ConfirmOrder, RevertToDraft, Fulfil, Cancel, Delete, Commit, TypeInv, TypeOK
<1>2. step[r] = "read" /\ Sends' = Sends
    <2>1. step[r] = "read"
        BY DEF ChangeStatus, ConfirmOrder, RevertToDraft, Fulfil, Cancel, Delete, At
    <2>2. \E s \in {"saved", "reload"} : step' = [step EXCEPT ![r] = s]
        BY DEF ChangeStatus, ConfirmOrder, RevertToDraft, Fulfil, Cancel, Delete, End, Goto
    <2>3. PICK s \in {"saved", "reload"} : step' = [step EXCEPT ![r] = s]
        BY <2>2
    <2>4. Progress(s) = "waiting" /\ Progress(step[r]) = "waiting"
        BY <2>1 DEF Progress
    <2>5. Sends' = [Sends EXCEPT ![r] = Progress(s)] /\ Sends[r] = Progress(step[r])
        BY <2>3, SendsMove DEF Steps
    <2>6. Sends' = Sends
        BY <2>4, <2>5 DEF Sends
    <2> QED BY <2>1, <2>6
<1>3. CASE ConfirmOrder(r) \/ RevertToDraft(r)
    <2>1. order'.live /\ order'.status \in {"confirmed", "draft"}
        BY <1>1, <1>3 DEF ConfirmOrder, RevertToDraft, Commit, Rows
    <2>2. ShownStatus' = "open"
        BY <2>1 DEF ShownStatus
    <2> QED BY <1>1, <1>2, <2>2
<1>4. CASE Fulfil(r)
    <2>1. order'.live /\ order'.status = input[r]
        BY <1>1, <1>4 DEF Fulfil, Commit, Rows
    <2>2. input[r] \in KitchenStatuses /\ tickets # {}
        BY <1>4 DEF Fulfil, At, AtRead, TypeInv, InputsFit, PromiseInv, TicketInv
    <2>3. ShownStatus' = "sent"
        BY <2>1, <2>2 DEF ShownStatus
    <2> QED BY <1>1, <1>2, <2>2, <2>3
<1>5. CASE Cancel(r)
    <2>1. order'.live /\ order'.status = "cancelled"
        BY <1>1, <1>5 DEF Cancel, Commit, Rows
    <2>2. ShownStatus' = "cancelled"
        BY <2>1 DEF ShownStatus
    <2> QED BY <1>1, <1>2, <2>2
<1>6. CASE Delete(r)
    <2>1. ~order'.live
        BY <1>1, <1>6 DEF Delete, Commit, Rows
    <2>2. ShownStatus' = "gone"
        BY <2>1 DEF ShownStatus
    <2> QED BY <1>1, <1>2, <2>2
<1> QED BY <1>3, <1>4, <1>5, <1>6 DEF ChangeStatus

\* What does not touch the row is not shown; a writer of the cart leaves the
\* status alone.
LEMMA CartIsUnseen ==
    ASSUME TypeInv, NEW r \in Requests, Read(r) \/ Refuse(r) \/ EditCart(r)
    PROVE  UNCHANGED Kitchen!kitchenVars
<1>1. /\ step[r] \in {"idle", "read"} /\ tickets' = tickets
      /\ order'.live = order.live /\ order'.status = order.status
    BY DEF Read, Refuse, EditCart, SaveGuestEdit, SavePaymentChoice, SavePaymentSplit,
           SaveRebuild, At, Commit, TypeInv, TypeOK, Rows
<1>2. \E s \in {"read", "rejected", "saved"} : step' = [step EXCEPT ![r] = s]
    BY DEF Read, Refuse, EditCart, SaveGuestEdit, SavePaymentChoice, SavePaymentSplit,
           SaveRebuild, Load, End
<1>3. PICK s \in {"read", "rejected", "saved"} : step' = [step EXCEPT ![r] = s]
    BY <1>2
<1>4. Progress(s) = Progress(step[r]) /\ s \in Steps
    BY <1>1 DEF Progress, Steps
<1>5. ShownStatus' = ShownStatus
    BY <1>1 DEF ShownStatus
<1> QED BY <1>1, <1>3, <1>4, <1>5, Unseen

\* A send takes the steps of KitchenTicket's sends, and no others.
LEMMA SendIsSend ==
    ASSUME TypeInv, PromiseInv, NEW r \in Requests, Send(r) \/ Crash(r)
    PROVE  [Kitchen!Next]_(Kitchen!kitchenVars)
<1> USE DEF Steps, Holding
<1>1. CASE Reload(r)
    <2>1. step[r] = "reload" /\ tickets' = tickets /\ ShownStatus' = ShownStatus
        BY <1>1 DEF Reload, ShownStatus
    <2>2. CASE step' = [step EXCEPT ![r] = "read"]
        BY <2>1, <2>2, Unseen DEF Progress
    <2>3. CASE step' = [step EXCEPT ![r] = "done"]
        BY <2>1, <2>3, SendsMove DEF Progress, Kitchen!Abandon, Kitchen!Next
    <2> QED BY <1>1, <2>2, <2>3 DEF Reload, Load, End
<1>2. CASE Claim(r)
    <2>1. /\ step[r] = "read" /\ tickets' = tickets
          /\ step' = [step EXCEPT ![r] = "claimed"]
          /\ order.live /\ order.status = "confirmed"
          /\ order'.live /\ order'.status = "sending_to_iiko"
        BY <1>2 DEF Claim, Claimable, Commit, Goto, At, TypeInv, TypeOK, Rows
    <2>2. ShownStatus = "open" /\ ShownStatus' = "sending"
        BY <2>1 DEF ShownStatus, KitchenStatuses
    <2>3. Kitchen!Claim(r)
        BY <2>1, <2>2, SendsMove DEF Progress, Kitchen!Claim
    <2> QED BY <2>3 DEF Kitchen!Next
<1>3. CASE CallIiko(r)
    <2>1. /\ step[r] = "claimed" /\ step' = [step EXCEPT ![r] = "answered"]
          /\ tickets' \in {tickets, tickets \cup {r}} /\ order' = order
        BY <1>3 DEF CallIiko, Goto
    <2>2. ShownStatus' = ShownStatus
        BY <2>1 DEF ShownStatus
    <2>3. Kitchen!Ask(r)
        BY <2>1, <2>2, SendsMove DEF Progress, Kitchen!Ask
    <2> QED BY <2>3 DEF Kitchen!Next
<1>4. CASE FinishRead(r) \/ FinishGone(r)
    <2>1. /\ step[r] \in {"answered", "finishing"} /\ tickets' = tickets
          /\ ShownStatus' = ShownStatus
        BY <1>4 DEF FinishRead, FinishGone, ShownStatus
    <2>2. CASE step' = [step EXCEPT ![r] = "finishing"]
        BY <2>1, <2>2, Unseen DEF Progress
    <2>3. CASE step' = [step EXCEPT ![r] = "done"]
        <3>1. Kitchen!Settle(r)
            BY <2>1, <2>3, SendsMove DEF Progress, Kitchen!Settle
        <3> QED BY <3>1 DEF Kitchen!Next
    <2> QED BY <1>4, <2>2, <2>3 DEF FinishRead, FinishGone, Load, End
<1>5. CASE FinishWrite(r)
    <2>1. /\ step[r] = "finishing" /\ step' = [step EXCEPT ![r] = "done"]
          /\ order.live /\ order'.live /\ tickets' = tickets
          /\ order'.status \in {order.status, Outcome(r)}
        BY <1>5 DEF FinishWrite, Commit, End, TypeInv, TypeOK, Rows
    <2>2. reply[r] => tickets # {}
        BY <2>1 DEF PromiseInv, TicketInv
    <2>3. ShownStatus # "gone" /\ ShownStatus' \in {ShownStatus} \cup Kitchen!Honest
        <3>1. CASE order'.status = order.status
            BY <2>1, <3>1 DEF ShownStatus, KitchenStatuses
        <3>2. CASE order'.status = Outcome(r) /\ reply[r]
            <4>1. order'.status = "sent_to_iiko"
                BY <3>2 DEF Outcome
            <4>2. ShownStatus' = "sent"
                BY <2>1, <4>1 DEF ShownStatus, KitchenStatuses
            <4> QED BY <2>1, <2>2, <3>2, <4>2, WhatIsShown DEF Kitchen!Honest
        <3>3. CASE order'.status = Outcome(r) /\ ~reply[r]
            <4>1. order'.status = "confirmed"
                BY <3>3 DEF Outcome
            <4>2. ShownStatus' = "open"
                BY <2>1, <4>1 DEF ShownStatus, KitchenStatuses
            <4> QED BY <2>1, <4>2, WhatIsShown DEF Kitchen!Honest
        <3> QED BY <2>1, <3>1, <3>2, <3>3
    <2>4. Kitchen!Settle(r)
        BY <2>1, <2>3, SendsMove DEF Progress, Kitchen!Settle
    <2> QED BY <2>4 DEF Kitchen!Next
<1>6. CASE Crash(r)
    <2>1. /\ step[r] \in Holding \cup {"reload"} /\ step' = [step EXCEPT ![r] = "lost"]
          /\ order' = order /\ tickets' = tickets
        BY <1>6 DEF Crash, End
    <2>2. ShownStatus' = ShownStatus
        BY <2>1 DEF ShownStatus
    <2>3. Kitchen!Abandon(r)
        BY <2>1, <2>2, SendsMove DEF Progress, Kitchen!Abandon
    <2> QED BY <2>3 DEF Kitchen!Next
<1> QED BY <1>1, <1>2, <1>3, <1>4, <1>5, <1>6 DEF Send

\* The handlers of an order implement what the kitchen may rely on, for any
\* number of handlers: every step of theirs is one of KitchenTicket's or none.
THEOREM KitchenIsServed == Spec => SendsAsPromised
<1>1. Init => Kitchen!Init
    BY DEF Init, NewRow, Kitchen!Init, ShownStatus, KitchenStatuses, Sends, Progress
<1>2. TypeInv /\ PromiseInv /\ [Next]_vars => [Kitchen!Next]_(Kitchen!kitchenVars)
    <2> SUFFICES ASSUME TypeInv, PromiseInv, [Next]_vars
                 PROVE  [Kitchen!Next]_(Kitchen!kitchenVars)
        OBVIOUS
    <2>1. CASE UNCHANGED vars
        BY <2>1 DEF vars, Kitchen!kitchenVars, ShownStatus, Sends
    <2>2. ASSUME NEW r \in Requests, Read(r) \/ Refuse(r) \/ EditCart(r)
          PROVE  UNCHANGED Kitchen!kitchenVars
        BY <2>2, CartIsUnseen
    <2>3. ASSUME NEW r \in Requests, ChangeStatus(r) PROVE Kitchen!Next
        BY <2>3, ChangeIsChange DEF Kitchen!Next
    <2>4. ASSUME NEW r \in Requests, Send(r) \/ Crash(r)
          PROVE  [Kitchen!Next]_(Kitchen!kitchenVars)
        BY <2>4, SendIsSend
    <2> QED BY <2>1, <2>2, <2>3, <2>4 DEF Next
<1> QED BY <1>1, <1>2, Typing, Promises, PTL DEF Spec, SendsAsPromised, Kitchen!Spec

-----------------------------------------------------------------------------
(* Folds over a sequence, as the values they go through. *)

\* Induction along a sequence: what holds at 0 and goes on to the next place
\* holds at every place.
LEMMA Along ==
    ASSUME NEW n \in Nat, NEW T, 0 \in T, \A i \in 1..n : i - 1 \in T => i \in T
    PROVE  \A i \in 0..n : i \in T
<1> SUFFICES ASSUME {i \in 0..n : i \notin T} # {} PROVE FALSE
    OBVIOUS
<1> DEFINE Left == {i \in 0..n : i \notin T}
<1>1. PICK x \in Left : \A y \in Left : ~(<<y, x>> \in OpToRel(<, Nat))
    <2>1. Left \subseteq Nat
        OBVIOUS
    <2> QED BY <2>1, NatLessThanWellFounded, WFMin
<1>2. x - 1 \in Left
    OBVIOUS
<1>3. <<x - 1, x>> \in OpToRel(<, Nat)
    BY <1>2 DEF OpToRel
<1> QED BY <1>1, <1>2, <1>3

\* The last of the first n places.
LEMMA MaxOfPrefix ==
    ASSUME NEW n \in Nat \ {0}
    PROVE  Max(1..n) = n /\ (1..n) \ {Max(1..n)} = 1..(n - 1)
<1>1. Max(1..n) = n
    BY DEF Max
<1> QED BY <1>1

\* A set of places has a last one.
LEMMA MaxOfSome ==
    ASSUME NEW n \in Nat, NEW S \in SUBSET (1..n), S # {}
    PROVE  Max(S) \in S
<1> DEFINE Bound == {m \in 0..n : \A R \in SUBSET (1..m) :
                        R # {} => \E x \in R : \A y \in R : x >= y}
<1>1. 0 \in Bound
    <2>1. \A R \in SUBSET (1..0) : R = {}
        OBVIOUS
    <2> QED BY <2>1, 0 \in 0..n
<1>2. ASSUME NEW m \in 1..n, m - 1 \in Bound PROVE m \in Bound
    <2> SUFFICES ASSUME NEW R \in SUBSET (1..m), R # {}
                 PROVE  \E x \in R : \A y \in R : x >= y
        OBVIOUS
    <2>1. CASE m \in R
        BY <2>1
    <2>2. CASE m \notin R
        <3>1. \A y \in R : y \in 1..(m - 1)
            BY <2>2
        <3> QED BY <3>1, <1>2
    <2> QED BY <2>1, <2>2
<1> HIDE DEF Bound
<1>3. n \in Bound
    BY <1>1, <1>2, Along
<1> QED BY <1>3 DEF Bound, Max

\* The library folds over sets of places, from the last place down, by a function
\* it chooses.  `next` is the operator folded with, as a function on A: FoldsTo
\* says that g is such a function, Follows what is known of the chosen one, and
\* Path what values the fold goes through, place by place.
FoldsTo(g, A, base, n, next) ==
    /\ g \in [SUBSET (1..n) -> A]
    /\ \A S \in SUBSET (1..n) :
           g[S] = IF S = {} THEN base ELSE next[<<g[S \ {Max(S)}], Max(S)>>]

Follows(it, A, base, n, next, end) ==
    /\ it[{}] = base
    /\ it[1..n] = end
    /\ \A S \in SUBSET (1..n) :
           S # {} /\ it[S \ {Max(S)}] \in A => it[S] = next[<<it[S \ {Max(S)}], Max(S)>>]

Path(p, A, base, n, next, end) ==
    /\ p \in [0..n -> A]
    /\ p[0] = base
    /\ p[n] = end
    /\ \A i \in 1..n : p[i] = next[<<p[i - 1], i>>]

\* The function by which the library defines a fold exists.
LEMMA FoldDefined ==
    ASSUME NEW A, NEW base \in A, NEW n \in Nat, NEW next \in [A \X (1..n) -> A]
    PROVE  \E g : FoldsTo(g, A, base, n, next)
<1> USE DEF FoldsTo
<1> DEFINE Fits(g, k) == FoldsTo(g, A, base, k, next)
           T == {k \in 0..n : \E g : Fits(g, k)}
<1>1. 0 \in T
    <2>1. Fits([S \in SUBSET (1..0) |-> base], 0)
        OBVIOUS
    <2> QED BY <2>1, 0 \in 0..n
<1>2. ASSUME NEW k \in 1..n, k - 1 \in T PROVE k \in T
    <2>1. PICK g : Fits(g, k - 1)
        BY <1>2
    <2> DEFINE h == [S \in SUBSET (1..k) |-> IF k \in S THEN next[<<g[S \ {k}], k>>] ELSE g[S]]
    <2>2. ASSUME NEW S \in SUBSET (1..k), k \in S
          PROVE  /\ Max(S) = k /\ S \ {k} \in SUBSET (1..(k - 1))
                 /\ h[S] = next[<<h[S \ {Max(S)}], Max(S)>>] /\ h[S] \in A
        <3>1. Max(S) = k
            <4>1. \A x \in S : k >= x /\ (x >= k => x = k)
                OBVIOUS
            <4> QED BY <2>2, <4>1 DEF Max
        <3>2. S \ {k} \in SUBSET (1..(k - 1)) /\ S \ {k} \in SUBSET (1..k)
            OBVIOUS
        <3>3. h[S \ {k}] = g[S \ {k}] /\ g[S \ {k}] \in A
            BY <3>2, <2>1
        <3> QED BY <2>2, <3>1, <3>2, <3>3
    <2>3. ASSUME NEW S \in SUBSET (1..k), k \notin S
          PROVE  h[S] = (IF S = {} THEN base ELSE next[<<h[S \ {Max(S)}], Max(S)>>]) /\ h[S] \in A
        <3>1. S \in SUBSET (1..(k - 1))
            <4>1. \A x \in S : x \in 1..(k - 1)
                BY <2>3
            <4> QED BY <4>1
        <3> DEFINE R == S \ {Max(S)}
        <3>3. R \in SUBSET (1..(k - 1)) /\ R \in SUBSET (1..k) /\ k \notin R
            BY <3>1, <2>3
        <3>2. h[S] = g[S] /\ h[R] = g[R] /\ g[S] \in A
            BY <2>3, <3>1, <3>3, <2>1
        <3> QED BY <3>1, <3>2, <2>1
    <2>4. Fits(h, k)
        <3>1. h \in [SUBSET (1..k) -> A]
            BY <2>2, <2>3
        <3> QED BY <2>2, <2>3, <3>1
    <2> QED BY <2>4, k \in 0..n
<1> HIDE DEF T
<1>3. n \in T
    BY <1>1, <1>2, Along
<1> QED BY <1>3 DEF T

\* What the library's function goes through on the first i places.
LEMMA FoldPath ==
    ASSUME NEW A, NEW base \in A, NEW n \in Nat, NEW next \in [A \X (1..n) -> A],
           NEW end, NEW it, Follows(it, A, base, n, next, end)
    PROVE  \E p : Path(p, A, base, n, next, end)
<1> USE DEF Follows
<1> DEFINE p == [i \in 0..n |-> it[1..i]]
           T == {i \in 0..n : p[i] \in A}
<1>1. p[0] = base
    <2>1. 1..0 = {}
        OBVIOUS
    <2> QED BY <2>1
<1>2. ASSUME NEW i \in 1..n, p[i - 1] \in A PROVE p[i] \in A /\ p[i] = next[<<p[i - 1], i>>]
    <2>1. 1..i \in SUBSET (1..n) /\ 1..i # {} /\ i \in Nat \ {0} /\ i \in 0..n /\ i - 1 \in 0..n
        <3>1. i \in 1..i /\ i \in Nat \ {0} /\ i \in 0..n /\ i - 1 \in 0..n
            OBVIOUS
        <3>2. \A j \in 1..i : j \in 1..n
            OBVIOUS
        <3> QED BY <3>1, <3>2
    <2>2. p[i] = it[1..i] /\ p[i - 1] = it[1..(i - 1)]
        BY <2>1
    <2> HIDE DEF p
    <2> QED BY <1>2, <2>1, <2>2, MaxOfPrefix
<1>3. p[n] = end /\ p = [i \in 0..n |-> p[i]]
    OBVIOUS
<1> HIDE DEF p
<1>4. \A i \in 0..n : i \in T
    <2>1. 0 \in T
        BY <1>1
    <2>2. ASSUME NEW i \in 1..n, i - 1 \in T PROVE i \in T
        <3>1. p[i - 1] \in A /\ i \in 0..n
            BY <2>2
        <3>2. p[i] \in A
            BY <1>2, <3>1
        <3> QED BY <3>1, <3>2
    <2> HIDE DEF T
    <2> QED BY <2>1, <2>2, Along
<1>5. \A i \in 1..n : i - 1 \in 0..n
    OBVIOUS
<1>6. p \in [0..n -> A]
    BY <1>3, <1>4
<1> QED BY <1>1, <1>2, <1>3, <1>4, <1>5, <1>6 DEF Path

-----------------------------------------------------------------------------
(* Lines, and the quantity of a dish in a cart. *)

\* What the id of a line says of its word.
Agrees(line) ==
    IF line.dish # NoDish THEN line.dish = line.word.dish
    ELSE line.word.form = "id" => line.word.dish = NoDish

CartLines   == {l \in Lines : Agrees(l) /\ l.qty > 0}
StoredLines == {l \in CartLines : l.dish # NoDish /\ l.word.form # "id"}
CartSeqs    == Seq(CartLines)

LEMMA LinesAreLines ==
    /\ ListedLines \subseteq CartLines
    /\ StoredLines \subseteq CartLines
    /\ Seq(ListedLines) \subseteq CartSeqs
    /\ Seq(StoredLines) \subseteq CartSeqs
<1>1. ListedLines \subseteq CartLines
    BY DEF ListedLines, CartLines, Agrees
<1>2. StoredLines \subseteq CartLines
    BY DEF StoredLines
<1> QED BY <1>1, <1>2 DEF CartSeqs

\* The dish a line stands for is that of its word, and of its key.
LEMMA DishOfWord ==
    ASSUME NEW l \in CartLines
    PROVE  /\ DishOf(l) = l.word.dish /\ Key(l).dish = l.word.dish
           /\ l.word.dish \in Dishes \cup {NoDish}
BY DEF CartLines, Agrees, DishOf, Named, Key, Lines, Words

LEMMA WeightIsNat ==
    ASSUME NEW l \in CartLines, NEW d
    PROVE  Weight(l, d) \in Nat
BY DEF Weight, CartLines, Lines

\* The sums of a dish's quantities in the first i lines.
Sums(p, cart, d) ==
    /\ p \in [0..Len(cart) -> Nat]
    /\ p[0] = 0
    /\ \A i \in 1..Len(cart) : p[i] = p[i - 1] + Weight(cart[i], d)

\* The fold that Qty is goes through these sums.
LEMMA QtySums ==
    ASSUME NEW cart \in CartSeqs, NEW d
    PROVE  \E p : Sums(p, cart, d) /\ Qty(cart, d) = p[Len(cart)]
<1> DEFINE Sum(iter) == iter = [S \in SUBSET DOMAIN cart |->
                            IF S = {} THEN 0 ELSE iter[S \ {Max(S)}] + Weight(cart[Max(S)], d)]
           it == CHOOSE iter : Sum(iter)
<1>1. PICK n \in Nat : /\ n = Len(cart) /\ DOMAIN cart = 1..n
                       /\ \A i \in 1..n : cart[i] \in CartLines
    BY DEF CartSeqs
<1> DEFINE next == [x \in Nat \X (1..n) |-> x[1] + Weight(cart[x[2]], d)]
<1>2. next \in [Nat \X (1..n) -> Nat]
    BY <1>1, WeightIsNat
<1>3. \A x \in Nat, i \in 1..n : next[<<x, i>>] = x + Weight(cart[i], d)
    OBVIOUS
<1> HIDE DEF next
<1>4. PICK g : FoldsTo(g, Nat, 0, n, next)
    BY <1>2, FoldDefined
<1>5. Sum(g)
    <2>1. \A S \in SUBSET (1..n) : S # {} => g[S \ {Max(S)}] \in Nat /\ Max(S) \in 1..n
        BY <1>4, MaxOfSome DEF FoldsTo
    <2>2. \A S \in SUBSET (1..n) :
              g[S] = IF S = {} THEN 0 ELSE g[S \ {Max(S)}] + Weight(cart[Max(S)], d)
        BY <1>3, <1>4, <2>1 DEF FoldsTo
    <2>3. g = [S \in SUBSET (1..n) |-> g[S]]
        BY <1>4 DEF FoldsTo
    <2> QED BY <1>1, <2>2, <2>3
<1>6. Sum(it)
    BY <1>5
<1>7. Qty(cart, d) = it[1..n]
    BY <1>1 DEF Qty, FoldLeft, MapThenFoldSet
<1>8. Follows(it, Nat, 0, n, next, Qty(cart, d))
    <2>1. \A S \in SUBSET (1..n) : S # {} => Max(S) \in 1..n
        BY MaxOfSome
    <2> HIDE DEF it
    <2> QED BY <1>1, <1>3, <1>6, <1>7, <2>1 DEF Follows
<1> HIDE DEF it, Sum
<1>9. PICK p : Path(p, Nat, 0, n, next, Qty(cart, d))
    BY <1>2, <1>8, FoldPath
<1>10. \A i \in 1..n : p[i - 1] \in Nat
    BY <1>9 DEF Path
<1> QED BY <1>1, <1>3, <1>9, <1>10 DEF Path, Sums

\* Whatever has these sums ends at the quantity.
LEMMA QtyOf ==
    ASSUME NEW cart \in CartSeqs, NEW d, NEW p, Sums(p, cart, d)
    PROVE  Qty(cart, d) = p[Len(cart)] /\ Qty(cart, d) \in Nat
<1>1. PICK q : Sums(q, cart, d) /\ Qty(cart, d) = q[Len(cart)]
    BY QtySums
<1>2. PICK n \in Nat : n = Len(cart) /\ \A i \in 1..n : cart[i] \in CartLines
    BY DEF CartSeqs
<1> DEFINE T == {i \in 0..n : p[i] = q[i]}
<1>3. 0 \in T
    BY <1>1 DEF Sums
<1>4. \A i \in 1..n : i - 1 \in T => i \in T
    BY <1>1, <1>2, WeightIsNat DEF Sums
<1>5. \A i \in 0..n : i \in T
    <2> HIDE DEF T
    <2> QED BY <1>3, <1>4, Along
<1>6. q[n] \in Nat
    BY <1>1, <1>2 DEF Sums
<1> QED BY <1>1, <1>2, <1>5, <1>6

LEMMA QtyIsNat ==
    ASSUME NEW cart \in CartSeqs, NEW d
    PROVE  Qty(cart, d) \in Nat
BY QtySums, QtyOf

\* Of a cart without lines of the dish, and with one line of it at most.
LEMMA QtyNone ==
    ASSUME NEW cart \in CartSeqs, NEW d, \A i \in DOMAIN cart : DishOf(cart[i]) # d
    PROVE  Qty(cart, d) = 0
<1> DEFINE p == [i \in 0..Len(cart) |-> 0]
<1>1. Len(cart) \in Nat /\ DOMAIN cart = 1..Len(cart)
    BY DEF CartSeqs
<1>2. Sums(p, cart, d)
    BY <1>1 DEF Sums, Weight
<1> QED BY <1>1, <1>2, QtyOf

LEMMA QtyOne ==
    ASSUME NEW cart \in CartSeqs, NEW d, NEW k \in DOMAIN cart,
           \A i \in DOMAIN cart : DishOf(cart[i]) = d => i = k
    PROVE  Qty(cart, d) = Weight(cart[k], d)
<1> DEFINE p == [i \in 0..Len(cart) |-> IF i < k THEN 0 ELSE Weight(cart[k], d)]
<1>1. Len(cart) \in Nat /\ DOMAIN cart = 1..Len(cart) /\ cart[k] \in CartLines
    BY DEF CartSeqs
<1>2. Weight(cart[k], d) \in Nat
    BY <1>1, WeightIsNat
<1>3. \A i \in 1..Len(cart) : i # k => Weight(cart[i], d) = 0
    BY <1>1 DEF Weight
<1>4. Sums(p, cart, d)
    BY <1>1, <1>2, <1>3 DEF Sums
<1> QED BY <1>1, <1>4, QtyOf

LEMMA QtyEmpty == ASSUME NEW d PROVE <<>> \in CartSeqs /\ Qty(<<>>, d) = 0
<1>1. <<>> \in CartSeqs
    BY DEF CartSeqs
<1> QED BY <1>1, QtyNone

\* The sums, step by step; behind a line they have its quantity in them.
LEMMA SumsStep ==
    ASSUME NEW cart \in CartSeqs, NEW d, NEW q, Sums(q, cart, d), NEW i \in 1..Len(cart)
    PROVE  /\ Weight(cart[i], d) \in Nat /\ q[i] \in Nat /\ q[i - 1] \in Nat
           /\ q[i] = q[i - 1] + Weight(cart[i], d)
<1>1. PICK n \in Nat : n = Len(cart) /\ cart[i] \in CartLines
    BY DEF CartSeqs
<1>2. i \in 0..n /\ i - 1 \in 0..n
    BY <1>1
<1> QED BY <1>1, <1>2, WeightIsNat DEF Sums

LEMMA SumsBehind ==
    ASSUME NEW cart \in CartSeqs, NEW d, NEW q, Sums(q, cart, d), NEW k \in 1..Len(cart),
           NEW i \in k..Len(cart)
    PROVE  q[i] >= Weight(cart[k], d)
<1>1. PICK n \in Nat : n = Len(cart)
    BY DEF CartSeqs
<1> DEFINE T == {j \in 0..n : j >= k => q[j] >= Weight(cart[k], d)}
<1>2. 0 \in T
    BY <1>1
<1>3. ASSUME NEW j \in 1..n, j - 1 \in T PROVE j \in T
    <2>1. /\ Weight(cart[j], d) \in Nat /\ q[j] \in Nat /\ q[j - 1] \in Nat
          /\ q[j] = q[j - 1] + Weight(cart[j], d)
        BY <1>1, SumsStep
    <2>2. j > k => q[j - 1] >= Weight(cart[k], d)
        BY <1>3, <1>1
    <2>3. Weight(cart[k], d) \in Nat
        BY SumsStep
    <2> QED BY <1>1, <2>1, <2>2, <2>3
<1>4. \A j \in 0..n : j \in T
    <2> HIDE DEF T
    <2> QED BY <1>2, <1>3, <1>1, Along
<1> QED BY <1>1, <1>4

\* A line more at the end.
LEMMA QtyAppend ==
    ASSUME NEW cart \in CartSeqs, NEW line \in CartLines, NEW d
    PROVE  /\ Append(cart, line) \in CartSeqs
           /\ Qty(Append(cart, line), d) = Qty(cart, d) + Weight(line, d)
<1>1. PICK q : Sums(q, cart, d) /\ Qty(cart, d) = q[Len(cart)]
    BY QtySums
<1> DEFINE more == Append(cart, line)
<1>2. PICK n \in Nat : n = Len(cart) /\ DOMAIN cart = 1..n
    BY DEF CartSeqs
<1>3. /\ more \in CartSeqs /\ Len(more) = n + 1
      /\ \A i \in 1..n : more[i] = cart[i]
      /\ more[n + 1] = line
    BY <1>2 DEF CartSeqs
<1>4. Weight(line, d) \in Nat /\ q \in [0..n -> Nat]
    BY <1>1, <1>2, WeightIsNat DEF Sums
<1> HIDE DEF more
<1> DEFINE p == [i \in 0..(n + 1) |-> IF i <= n THEN q[i] ELSE q[n] + Weight(line, d)]
<1>5. Sums(p, more, d)
    <2>1. p \in [0..(n + 1) -> Nat] /\ p[0] = 0
        BY <1>1, <1>2, <1>4 DEF Sums
    <2>2. \A i \in 1..(n + 1) : p[i] = p[i - 1] + Weight(more[i], d)
        BY <1>1, <1>2, <1>3, <1>4 DEF Sums
    <2> QED BY <1>3, <2>1, <2>2 DEF Sums
<1>6. Qty(more, d) = p[n + 1]
    BY <1>3, <1>5, QtyOf
<1> QED BY <1>1, <1>2, <1>3, <1>6 DEF more

\* Another quantity in a line.
LEMMA QtyExcept ==
    ASSUME NEW cart \in CartSeqs, NEW k \in DOMAIN cart, NEW qty \in Nat \ {0}, NEW d
    PROVE  /\ [cart EXCEPT ![k].qty = qty] \in CartSeqs
           /\ Qty([cart EXCEPT ![k].qty = qty], d) + Weight(cart[k], d)
                  = Qty(cart, d) + (IF DishOf(cart[k]) = d THEN qty ELSE 0)
<1> DEFINE other == [cart EXCEPT ![k].qty = qty]
           w == Weight(cart[k], d)
           v == IF DishOf(cart[k]) = d THEN qty ELSE 0
<1>1. PICK q : Sums(q, cart, d) /\ Qty(cart, d) = q[Len(cart)]
    BY QtySums
<1>2. PICK n \in Nat : n = Len(cart) /\ DOMAIN cart = 1..n /\ \A i \in 1..n : cart[i] \in CartLines
    BY DEF CartSeqs
<1>3. /\ Len(other) = n
      /\ \A i \in 1..n : i # k => other[i] = cart[i]
      /\ other[k] = [cart[k] EXCEPT !.qty = qty]
    BY <1>2 DEF CartSeqs
<1>4. other[k] \in CartLines /\ Weight(other[k], d) = v /\ v \in Nat /\ w \in Nat
    <2>1. cart[k] \in CartLines
        BY <1>2
    <2>2. other[k].word = cart[k].word /\ other[k].dish = cart[k].dish /\ other[k].qty = qty
        BY <1>3, <2>1 DEF CartLines, Lines
    <2>3. other[k] \in CartLines
        BY <1>3, <2>1 DEF CartLines, Lines, Agrees
    <2>4. DishOf(other[k]) = DishOf(cart[k])
        BY <2>2 DEF DishOf, Named
    <2> QED BY <2>1, <2>2, <2>3, <2>4, WeightIsNat DEF Weight
<1>5. other \in CartSeqs
    BY <1>2, <1>3, <1>4 DEF CartSeqs
<1> HIDE DEF other, w, v
<1>6. q \in [0..n -> Nat] /\ q[0] = 0 /\ \A i \in 1..n : q[i] = q[i - 1] + Weight(cart[i], d)
    BY <1>1, <1>2 DEF Sums
<1>7. \A i \in k..n : q[i] >= w
    BY <1>1, <1>2, SumsBehind DEF w
<1> DEFINE p == [i \in 0..n |-> IF i < k THEN q[i] ELSE (q[i] - w) + v]
<1>8. Sums(p, other, d)
    <2>1. p \in [0..n -> Nat] /\ p[0] = 0
        <3>1. ASSUME NEW i \in 0..n PROVE (IF i < k THEN q[i] ELSE (q[i] - w) + v) \in Nat
            <4>1. CASE i < k
                BY <4>1, <1>6
            <4>2. CASE ~(i < k)
                BY SMTT(30), <4>2, <1>2, <1>4, <1>6, <1>7
            <4> QED BY <4>1, <4>2
        <3>2. p \in [0..n -> Nat]
            BY <3>1
        <3>3. 0 \in 0..n /\ 0 < k
            BY <1>2
        <3> QED BY <3>2, <3>3, <1>6
    <2>2. ASSUME NEW i \in 1..n PROVE p[i] = p[i - 1] + Weight(other[i], d)
        <3>1. CASE i < k
            BY SMTT(30), <3>1, <1>2, <1>3, <1>6
        <3>2. CASE i = k
            BY <3>2, <1>2, <1>4, <1>6, <1>7 DEF w
        <3>3. CASE i > k
            <4>1. /\ q[i] = q[i - 1] + Weight(cart[i], d)
                  /\ q[i - 1] \in Nat /\ q[i - 1] >= w /\ Weight(cart[i], d) \in Nat
                <5>1. i \in 1..n /\ i - 1 \in k..n
                    BY <3>3, <1>2
                <5> QED BY <5>1, <1>1, <1>2, <1>7, SumsStep
            <4>2. p[i] = (q[i] - w) + v /\ p[i - 1] = (q[i - 1] - w) + v
                BY <3>3, <1>2
            <4>3. Weight(other[i], d) = Weight(cart[i], d)
                BY <3>3, <1>2, <1>3
            <4> HIDE DEF p
            <4> QED BY <1>4, <4>1, <4>2, <4>3
        <3> QED BY <1>2, <3>1, <3>2, <3>3
    <2> QED BY <1>3, <2>1, <2>2 DEF Sums
<1>9. Qty(other, d) = p[n]
    BY <1>3, <1>5, <1>8, QtyOf
<1>10. Qty(other, d) + w = Qty(cart, d) + v
    BY <1>1, <1>2, <1>4, <1>6, <1>7, <1>9
<1> QED BY <1>5, <1>10 DEF other, w, v

\* A line less.
LEMMA QtyRemove ==
    ASSUME NEW cart \in CartSeqs, NEW k \in DOMAIN cart, NEW d
    PROVE  /\ RemoveAt(cart, k) \in CartSeqs
           /\ Qty(RemoveAt(cart, k), d) + Weight(cart[k], d) = Qty(cart, d)
<1> DEFINE other == RemoveAt(cart, k)
           w == Weight(cart[k], d)
<1>1. PICK q : Sums(q, cart, d) /\ Qty(cart, d) = q[Len(cart)]
    BY QtySums
<1>2. PICK n \in Nat : n = Len(cart) /\ DOMAIN cart = 1..n /\ \A i \in 1..n : cart[i] \in CartLines
    BY DEF CartSeqs
<1>3. /\ other \in CartSeqs /\ Len(other) = n - 1
      /\ \A i \in 1..(n - 1) : other[i] = IF i < k THEN cart[i] ELSE cart[i + 1]
    <2>1. /\ SubSeq(cart, 1, k - 1) \in Seq(CartLines) /\ Len(SubSeq(cart, 1, k - 1)) = k - 1
          /\ \A i \in 1..(k - 1) : SubSeq(cart, 1, k - 1)[i] = cart[i]
        BY <1>2 DEF CartSeqs
    <2>2. /\ SubSeq(cart, k + 1, n) \in Seq(CartLines) /\ Len(SubSeq(cart, k + 1, n)) = n - k
          /\ \A i \in 1..(n - k) : SubSeq(cart, k + 1, n)[i] = cart[k + i]
        BY <1>2 DEF CartSeqs
    <2>3. other = SubSeq(cart, 1, k - 1) \o SubSeq(cart, k + 1, n)
        BY <1>2 DEF RemoveAt
    <2> HIDE DEF other
    <2> DEFINE a == SubSeq(cart, 1, k - 1)
               b == SubSeq(cart, k + 1, n)
    <2> HIDE DEF a, b
    <2>4. /\ a \in Seq(CartLines) /\ b \in Seq(CartLines)
          /\ Len(a) = k - 1 /\ Len(b) = n - k /\ other = a \o b
        BY <2>1, <2>2, <2>3 DEF a, b
    <2>5. other \in Seq(CartLines) /\ Len(other) = n - 1
        BY <1>2, <2>4
    <2>6. ASSUME NEW i \in 1..(n - 1) PROVE other[i] = IF i < k THEN a[i] ELSE b[i - (k - 1)]
        <3>1. i \in 1..(Len(a) + Len(b)) /\ (i <= Len(a) <=> i < k)
            BY <1>2, <2>4
        <3>2. (a \o b)[i] = IF i <= Len(a) THEN a[i] ELSE b[i - Len(a)]
            BY <2>4, <3>1
        <3> QED BY <2>4, <3>1, <3>2
    <2>7. ASSUME NEW i \in 1..(n - 1) PROVE other[i] = IF i < k THEN cart[i] ELSE cart[i + 1]
        <3>1. i < k => other[i] = cart[i]
            BY <1>2, <2>1, <2>6 DEF a
        <3>2. i >= k => i - (k - 1) \in 1..(n - k) /\ k + (i - (k - 1)) = i + 1
            BY <1>2
        <3>3. i >= k => other[i] = cart[i + 1]
            <4>1. i >= k => b[i - (k - 1)] = cart[i + 1]
                BY <2>2, <3>2 DEF b
            <4>2. i >= k => ~(i < k)
                BY <1>2
            <4> QED BY <2>6, <4>1, <4>2
        <3> QED BY <3>1, <3>3, <1>2
    <2> QED BY <2>5, <2>7 DEF CartSeqs
<1> HIDE DEF other, w
<1>4. q \in [0..n -> Nat] /\ q[0] = 0 /\ \A i \in 1..n : q[i] = q[i - 1] + Weight(cart[i], d)
    BY <1>1, <1>2 DEF Sums
<1>5. w \in Nat /\ q[k] = q[k - 1] + w /\ q[k] \in Nat /\ q[k - 1] \in Nat
    BY SMTT(30), <1>1, <1>2, SumsStep DEF w
<1>6. \A i \in k..n : q[i] >= w
    BY <1>1, <1>2, SumsBehind DEF w
<1> DEFINE p == [i \in 0..(n - 1) |-> IF i < k THEN q[i] ELSE q[i + 1] - w]
<1>7. Sums(p, other, d)
    <2>1. p \in [0..(n - 1) -> Nat] /\ p[0] = 0
        <3>1. ASSUME NEW i \in 0..(n - 1) PROVE p[i] \in Nat
            <4>1. i < k => p[i] = q[i] /\ q[i] \in Nat
                BY <1>2, <1>4
            <4>2. i >= k => p[i] = q[i + 1] - w /\ q[i + 1] \in Nat /\ q[i + 1] >= w
                <5>1. i >= k => i + 1 \in k..n /\ i + 1 \in 0..n /\ ~(i < k)
                    BY <1>2
                <5>2. i >= k => q[i + 1] \in Nat /\ q[i + 1] >= w
                    BY <5>1, <1>4, <1>6
                <5> QED BY <5>1, <5>2
            <4> HIDE DEF p
            <4> QED BY <1>2, <1>5, <4>1, <4>2
        <3> QED BY SMTT(30), <1>2, <1>4, <3>1
    <2>2. ASSUME NEW i \in 1..(n - 1) PROVE p[i] = p[i - 1] + Weight(other[i], d)
        <3>1. CASE i < k
            BY <3>1, <1>2, <1>3, <1>4
        <3>2. CASE i >= k
            <4>1. /\ q[i + 1] = q[i] + Weight(cart[i + 1], d)
                  /\ q[i] \in Nat /\ q[i] >= w /\ Weight(cart[i + 1], d) \in Nat
                  /\ i = k => q[i] = q[i - 1] + w
                <5>1. i + 1 \in 1..n /\ i \in k..n /\ (i + 1) - 1 = i /\ i \in 1..n
                    BY <3>2, <1>2
                <5>2. /\ q[i + 1] = q[i] + Weight(cart[i + 1], d)
                      /\ Weight(cart[i + 1], d) \in Nat /\ q[i] \in Nat
                    BY ZenonT(60), <5>1, <1>1, <1>2, SumsStep
                <5> QED BY <5>1, <5>2, <1>5, <1>6
            <4>2. p[i] = q[i + 1] - w /\ p[i - 1] = IF i = k THEN q[i - 1] ELSE q[i] - w
                BY <3>2, <1>2
            <4>3. Weight(other[i], d) = Weight(cart[i + 1], d) /\ q[i - 1] \in Nat
                <5>1. i - 1 \in 0..n /\ ~(i < k)
                    BY <3>2, <1>2
                <5> QED BY <5>1, <1>3, <1>4
            <4> HIDE DEF p
            <4> QED BY <1>5, <4>1, <4>2, <4>3
        <3> QED BY <1>2, <3>1, <3>2
    <2> QED BY <1>3, <2>1, <2>2 DEF Sums
<1>8. Qty(other, d) = p[n - 1]
    BY <1>3, <1>7, QtyOf
<1>9. Qty(other, d) + w = Qty(cart, d)
    <2>1. n >= k /\ n \in k..n /\ n \in 0..n /\ n - 1 \in 0..(n - 1)
        BY <1>2
    <2>2. q[n] >= w /\ q[n] \in Nat
        BY <2>1, <1>4, <1>6
    <2>3. p[n - 1] = q[n] - w
        <3>1. n - 1 < k => k = n
            BY <2>1, <1>2
        <3>2. n - 1 < k => q[n - 1] = q[n] - w
            BY <3>1, <1>5
        <3> QED BY <2>1, <3>2, <1>2
    <2> HIDE DEF p
    <2> QED BY <1>1, <1>2, <1>5, <1>8, <2>2, <2>3
<1> QED BY <1>3, <1>9 DEF other, w

-----------------------------------------------------------------------------
(* merge_cart_actions *)

\* A place that a test selects passes the test.
LEMMA MinOfSome ==
    ASSUME NEW S \in SUBSET Nat, S # {}
    PROVE  Min(S) \in S
<1>1. PICK x \in S : \A y \in S : ~(<<y, x>> \in OpToRel(<, Nat))
    BY NatLessThanWellFounded, WFMin
<1>2. ASSUME NEW y \in S PROVE x <= y
    <2>1. x \in Nat /\ y \in Nat
        OBVIOUS
    <2>2. y < x => <<y, x>> \in OpToRel(<, Nat)
        BY <2>1 DEF OpToRel
    <2>3. ~(y < x)
        BY <1>1, <2>2
    <2> QED BY <2>1, <2>3
<1> QED BY <1>2 DEF Min

Keyed(k, cart, key)   == k # 0 => k \in DOMAIN cart /\ Key(cart[k]) = key
Leads(k, cart, word)  == k # 0 => k \in DOMAIN cart /\ DishOf(cart[k]) = word.dish
PlaceOfKey(cart, key) == SelectInSeq(cart, LAMBDA l : Key(l) = key)

LEMMA KeyedPlace ==
    ASSUME NEW cart \in CartSeqs, NEW key
    PROVE  Keyed(PlaceOfKey(cart, key), cart, key)
<1> DEFINE I == {i \in 1..Len(cart) : Key(cart[i]) = key}
           k == PlaceOfKey(cart, key)
<1>1. k = IF I # {} THEN Min(I) ELSE 0
    BY DEF SelectInSeq, PlaceOfKey
<1>2. I # {} => Min(I) \in I
    <2>1. I \in SUBSET Nat
        OBVIOUS
    <2> HIDE DEF I
    <2> QED BY <2>1, MinOfSome
<1>3. \A i \in I : i \in DOMAIN cart /\ Key(cart[i]) = key
    BY DEF CartSeqs
<1> HIDE DEF I
<1> HIDE DEF k
<1>4. k # 0 => k \in DOMAIN cart /\ Key(cart[k]) = key
    <2>1. k = 0 \/ k \in I
        BY <1>1, <1>2
    <2> QED BY <1>3, <2>1
<1>5. Keyed(k, cart, key)
    BY <1>4 DEF Keyed
<1> QED BY <1>5 DEF k

LEMMA TargetPlace ==
    ASSUME NEW cart \in CartSeqs, NEW word
    PROVE  Leads(Target(cart, word), cart, word)
<1> DEFINE I == {i \in 1..Len(cart) : Key(cart[i]) = word \/ cart[i].word = word}
           k == Target(cart, word)
<1>1. k = IF I # {} THEN Min(I) ELSE 0
    BY DEF SelectInSeq, Target
<1>2. I # {} => Min(I) \in I
    <2>1. I \in SUBSET Nat
        OBVIOUS
    <2> HIDE DEF I
    <2> QED BY <2>1, MinOfSome
<1>3. DOMAIN cart = 1..Len(cart) /\ \A i \in DOMAIN cart : cart[i] \in CartLines
    BY DEF CartSeqs
<1>4. \A i \in I : i \in DOMAIN cart /\ DishOf(cart[i]) = word.dish
    BY <1>3, DishOfWord
<1> HIDE DEF I
<1> HIDE DEF k
<1>5. k # 0 => k \in DOMAIN cart /\ DishOf(cart[k]) = word.dish
    <2>1. k = 0 \/ k \in I
        BY <1>1, <1>2
    <2> QED BY <1>4, <2>1
<1>6. Leads(k, cart, word)
    BY <1>5 DEF Leads
<1> QED BY <1>6 DEF k

\* Joining lines with one key loses nothing.
LEMMA LineAdded ==
    ASSUME NEW cart \in CartSeqs, NEW line \in CartLines
    PROVE  /\ AddLine(cart, line) \in CartSeqs
           /\ \A d : Qty(AddLine(cart, line), d) = Qty(cart, d) + Weight(line, d)
<1> DEFINE k == PlaceOfKey(cart, Key(line))
<1>1. k # 0 => k \in DOMAIN cart /\ Key(cart[k]) = Key(line)
    <2>1. Keyed(k, cart, Key(line))
        BY KeyedPlace
    <2> QED BY <2>1 DEF Keyed
<1>2. AddLine(cart, line) = IF k = 0 THEN Append(cart, line)
                            ELSE [cart EXCEPT ![k].qty = cart[k].qty + line.qty]
    BY DEF AddLine, PlaceOfKey
<1> HIDE DEF k
<1>3. CASE k = 0
    BY <1>2, <1>3, QtyAppend
<1>4. CASE k # 0
    <2>1. k \in DOMAIN cart /\ cart[k] \in CartLines /\ DishOf(cart[k]) = DishOf(line)
        <3>1. k \in DOMAIN cart /\ cart[k] \in CartLines
            BY <1>1, <1>4 DEF CartSeqs
        <3> QED BY <1>1, <1>4, <3>1, DishOfWord
    <2>2. cart[k].qty + line.qty \in Nat \ {0} /\ cart[k].qty \in Nat /\ line.qty \in Nat
        BY <2>1 DEF CartLines, Lines
    <2> DEFINE other == [cart EXCEPT ![k].qty = cart[k].qty + line.qty]
    <2>3. ASSUME NEW d PROVE Qty(other, d) = Qty(cart, d) + Weight(line, d)
        <3>1. Qty(other, d) + Weight(cart[k], d)
                  = Qty(cart, d) + (IF DishOf(cart[k]) = d THEN cart[k].qty + line.qty ELSE 0)
            BY <2>1, <2>2, QtyExcept
        <3>2. other \in CartSeqs
            BY <2>1, <2>2, QtyExcept
        <3>3. Qty(other, d) \in Nat /\ Qty(cart, d) \in Nat
            BY <3>2, QtyIsNat
        <3> HIDE DEF other
        <3> QED BY <2>1, <2>2, <3>1, <3>3 DEF Weight
    <2>4. other \in CartSeqs
        BY <2>1, <2>2, QtyExcept
    <2> QED BY <1>2, <1>4, <2>3, <2>4
<1> QED BY <1>3, <1>4

\* Loading the stored lines changes no quantity.
LEMMA StoredIsLoaded ==
    ASSUME NEW stored \in CartSeqs
    PROVE  Loaded(stored) \in CartSeqs /\ \A d : Qty(Loaded(stored), d) = Qty(stored, d)
<1> DEFINE A == CartSeqs
           Made(iter) == iter = [S \in SUBSET DOMAIN stored |->
                             IF S = {} THEN <<>> ELSE AddLine(iter[S \ {Max(S)}], stored[Max(S)])]
           it == CHOOSE iter : Made(iter)
<1>1. PICK n \in Nat : /\ n = Len(stored) /\ DOMAIN stored = 1..n
                       /\ \A i \in 1..n : stored[i] \in CartLines
    BY DEF CartSeqs
<1> DEFINE next == [x \in A \X (1..n) |-> AddLine(x[1], stored[x[2]])]
<1>2. \A x \in A, i \in 1..n : AddLine(x, stored[i]) \in A
    BY <1>1, LineAdded
<1>3. /\ next \in [A \X (1..n) -> A]
      /\ \A x \in A, i \in 1..n : next[<<x, i>>] = AddLine(x, stored[i])
    BY <1>1, <1>2
<1>4. <<>> \in A
    BY QtyEmpty
<1> HIDE DEF next, A
<1>5. PICK g : FoldsTo(g, A, <<>>, n, next)
    BY <1>3, <1>4, FoldDefined
<1>6. \A S \in SUBSET (1..n) : S # {} => Max(S) \in 1..n
    BY MaxOfSome
<1>7. Made(g)
    <2>1. \A S \in SUBSET (1..n) : S # {} => g[S \ {Max(S)}] \in A
        BY <1>5 DEF FoldsTo
    <2>2. \A S \in SUBSET (1..n) :
              g[S] = IF S = {} THEN <<>> ELSE AddLine(g[S \ {Max(S)}], stored[Max(S)])
        BY <1>3, <1>5, <1>6, <2>1 DEF FoldsTo
    <2>3. g = [S \in SUBSET (1..n) |-> g[S]]
        BY <1>5 DEF FoldsTo
    <2> QED BY <1>1, <2>2, <2>3
<1>8. Made(it)
    BY <1>7
<1>9. Loaded(stored) = it[1..n]
    BY <1>1 DEF Loaded, FoldLeft, MapThenFoldSet
<1>10. Follows(it, A, <<>>, n, next, Loaded(stored))
    <2> HIDE DEF it
    <2> QED BY <1>1, <1>3, <1>6, <1>8, <1>9 DEF Follows
<1> HIDE DEF it, Made
<1>11. PICK p : Path(p, A, <<>>, n, next, Loaded(stored))
    BY <1>3, <1>4, <1>10, FoldPath
<1>12. Loaded(stored) \in CartSeqs /\ p[0] = <<>> /\ p[n] = Loaded(stored)
    BY <1>11 DEF Path, A
<1>13. ASSUME NEW d PROVE Qty(Loaded(stored), d) = Qty(stored, d)
    <2>1. PICK q : Sums(q, stored, d) /\ Qty(stored, d) = q[n]
        BY <1>1, QtySums
    <2> DEFINE T == {i \in 0..n : Qty(p[i], d) = q[i]}
    <2>2. 0 \in T
        BY <1>12, <2>1, QtyEmpty DEF Sums
    <2>3. ASSUME NEW i \in 1..n, i - 1 \in T PROVE i \in T
        <3>1. i - 1 \in 0..n /\ i \in 0..n /\ p[i - 1] \in CartSeqs
            BY <1>11 DEF Path, A
        <3>2. p[i] = AddLine(p[i - 1], stored[i])
            BY <1>3, <1>11, <3>1 DEF Path, A
        <3>3. Qty(p[i], d) = Qty(p[i - 1], d) + Weight(stored[i], d)
            BY <1>1, <3>1, <3>2, LineAdded
        <3>4. q[i] = q[i - 1] + Weight(stored[i], d)
            BY <1>1, <2>1, SumsStep
        <3> QED BY <2>3, <3>1, <3>3, <3>4
    <2>4. n \in T
        <3> HIDE DEF T
        <3> QED BY <2>2, <2>3, Along
    <2> QED BY <1>12, <2>1, <2>4
<1> QED BY <1>12, <1>13

-----------------------------------------------------------------------------
(* The deltas, against what they mean dish by dish. *)

LEMMA AmountIsNat ==
    ASSUME NEW delta \in Deltas, NEW qty \in Nat
    PROVE  Amount(delta, qty) \in Nat /\ (delta.op = "add" => Amount(delta, qty) = qty + delta.qty)
<1>1. delta.qty \in Nat /\ delta.op \in Ops
    BY MaxAssumption DEF Deltas
<1>2. CASE delta.op = "add"
    BY <1>1, <1>2 DEF Amount
<1>3. CASE delta.op = "remove"
    BY <1>1, <1>3 DEF Amount
<1>4. CASE delta.op = "set_quantity"
    BY <1>1, <1>4 DEF Amount
<1> QED BY <1>1, <1>2, <1>3, <1>4 DEF Ops

LEMMA StubIsLine ==
    ASSUME NEW word \in Words, NEW qty \in Nat \ {0}
    PROVE  /\ [Stub(word) EXCEPT !.qty = qty] \in CartLines
           /\ \A d : Weight([Stub(word) EXCEPT !.qty = qty], d) = IF word.dish = d THEN qty ELSE 0
<1> DEFINE line == [Stub(word) EXCEPT !.qty = qty]
<1>1. line = [word |-> word, dish |-> IF word.form = "id" THEN word.dish ELSE NoDish, qty |-> qty]
    BY DEF Stub
<1>2. line \in CartLines
    BY <1>1 DEF CartLines, Lines, Agrees, Words
<1>3. line.word = word /\ line.qty = qty
    BY <1>1
<1> HIDE DEF line
<1>4. DishOf(line) = word.dish
    BY <1>2, <1>3, DishOfWord
<1>5. \A d : Weight(line, d) = IF word.dish = d THEN qty ELSE 0
    BY <1>3, <1>4 DEF Weight
<1> QED BY <1>2, <1>5 DEF line

\* A delta changes one line, of the dish it names, and that as it should
\* unless the cart has another line of the dish.
Heeds(before, after, delta) ==
    /\ after \in CartSeqs
    /\ \A d : d # delta.word.dish => Qty(after, d) = Qty(before, d)
    /\ ~Strays(before, delta)
           => Qty(after, delta.word.dish) = Amount(delta, Qty(before, delta.word.dish))

LEMMA DeltaMerged ==
    ASSUME NEW cart \in CartSeqs, NEW delta \in Deltas
    PROVE  Heeds(cart, MergeDelta(cart, delta), delta)
<1> DEFINE k    == Target(cart, delta.word)
           had  == IF k = 0 THEN 0 ELSE cart[k].qty
           qty  == Amount(delta, had)
           e    == delta.word.dish
           after == MergeDelta(cart, delta)
<1>1. delta.word \in Words /\ delta.qty \in Nat /\ delta.op \in Ops
    BY MaxAssumption DEF Deltas
<1>2. k # 0 => k \in DOMAIN cart /\ DishOf(cart[k]) = e
    BY TargetPlace DEF Leads
<1>3. k # 0 => cart[k] \in CartLines /\ cart[k].qty \in Nat /\ cart[k].qty > 0 /\ k > 0
    BY <1>2 DEF CartSeqs, CartLines, Lines
<1>4. /\ k = 0 /\ qty = 0 => after = cart
      /\ k = 0 /\ qty # 0 => after = Append(cart, [Stub(delta.word) EXCEPT !.qty = qty])
      /\ k # 0 /\ qty = 0 => after = RemoveAt(cart, k)
      /\ k # 0 /\ qty # 0 => after = [cart EXCEPT ![k].qty = qty]
    <2>1. had \in Nat
        BY <1>3
    <2>2. qty \in Nat
        BY <2>1, AmountIsNat
    <2>3. (k > 0 <=> k # 0) /\ (qty > 0 <=> qty # 0)
        BY <1>2, <2>2 DEF CartSeqs
    <2> QED BY <2>3 DEF MergeDelta
<1>5. had \in Nat /\ qty \in Nat /\ (delta.op = "add" => qty = had + delta.qty)
    BY <1>3, AmountIsNat
<1>6. \A d : Qty(cart, d) \in Nat
    BY QtyIsNat
<1>7. /\ after \in CartSeqs
      /\ \A d : d # e => Qty(after, d) = Qty(cart, d)
      /\ Qty(after, e) + had = Qty(cart, e) + qty
    <2> HIDE DEF qty
    <2>1. CASE k = 0 /\ qty = 0
        BY <2>1, <1>4, <1>6
    <2>2. CASE k = 0 /\ qty # 0
        <3> DEFINE line == [Stub(delta.word) EXCEPT !.qty = qty]
        <3>1. line \in CartLines /\ \A d : Weight(line, d) = IF e = d THEN qty ELSE 0
            BY <2>2, <1>1, <1>5, StubIsLine
        <3> HIDE DEF line
        <3>2. after \in CartSeqs /\ \A d : Qty(after, d) = Qty(cart, d) + Weight(line, d)
            BY ZenonT(60), <2>2, <1>4, <3>1, QtyAppend DEF line
        <3> HIDE DEF after
        <3> QED BY <2>2, <1>5, <1>6, <3>1, <3>2
    <2>3. CASE k # 0 /\ qty = 0
        <3>1. after \in CartSeqs /\ \A d : Qty(after, d) + Weight(cart[k], d) = Qty(cart, d)
            BY <2>3, <1>2, <1>4, QtyRemove
        <3> HIDE DEF after, k
        <3>2. \A d : Weight(cart[k], d) = IF d = e THEN cart[k].qty ELSE 0
            BY <2>3, <1>2 DEF Weight
        <3>3. \A d : Qty(after, d) \in Nat
            BY <3>1, QtyIsNat
        <3> QED BY <2>3, <1>3, <1>6, <3>1, <3>2, <3>3
    <2>4. CASE k # 0 /\ qty # 0
        <3>1. /\ after \in CartSeqs
              /\ \A d : Qty(after, d) + Weight(cart[k], d)
                            = Qty(cart, d) + (IF DishOf(cart[k]) = d THEN qty ELSE 0)
            BY <2>4, <1>2, <1>4, <1>5, QtyExcept
        <3> HIDE DEF after, k
        <3>2. \A d : Weight(cart[k], d) = IF d = e THEN cart[k].qty ELSE 0
            BY <2>4, <1>2 DEF Weight
        <3>3. \A d : Qty(after, d) \in Nat
            BY <3>1, QtyIsNat
        <3> QED BY <2>4, <1>2, <1>3, <1>5, <1>6, <3>1, <3>2, <3>3
    <2> QED BY <2>1, <2>2, <2>3, <2>4
<1>8. ASSUME delta.op # "add", ~Strays(cart, delta) PROVE Qty(cart, e) = had
    <2>1. \A i \in DOMAIN cart : DishOf(cart[i]) = e => i = k
        BY <1>8 DEF Strays
    <2> HIDE DEF k
    <2>2. CASE k = 0
        <3>1. \A i \in DOMAIN cart : DishOf(cart[i]) # e
            BY <2>1, <2>2 DEF CartSeqs
        <3> QED BY <2>2, <3>1, QtyNone
    <2>3. CASE k # 0
        <3>1. Qty(cart, e) = Weight(cart[k], e)
            BY <2>1, <2>3, <1>2, QtyOne
        <3> QED BY <2>3, <3>1, <1>2 DEF Weight
    <2> QED BY <2>2, <2>3
<1>9. ~Strays(cart, delta) => Qty(after, e) = Amount(delta, Qty(cart, e))
    <2>1. Qty(after, e) \in Nat /\ Qty(cart, e) \in Nat
        BY <1>7, QtyIsNat
    <2>2. CASE delta.op = "add"
        <3>1. Amount(delta, Qty(cart, e)) = Qty(cart, e) + delta.qty
            BY <2>1, <2>2, AmountIsNat
        <3> HIDE DEF after, had, qty
        <3> QED BY <1>1, <1>5, <1>7, <2>1, <2>2, <3>1
    <2>3. CASE delta.op # "add"
        <3>1. ~Strays(cart, delta) => Qty(cart, e) = had
            BY <1>8, <2>3
        <3>2. ~Strays(cart, delta) => Qty(after, e) = qty
            <4> HIDE DEF after, had, qty
            <4> QED BY <1>5, <1>7, <2>1, <3>1
        <3> HIDE DEF after, had
        <3> QED BY <3>1, <3>2
    <2> QED BY <2>2, <2>3
<1> HIDE DEF after
<1>10. Heeds(cart, after, delta)
    BY <1>7, <1>9 DEF Heeds
<1> QED BY <1>10 DEF after

\* The carts that a merge goes through.
MergePath(p, stored, deltas) ==
    /\ p \in [0..Len(deltas) -> CartSeqs]
    /\ p[0] = Loaded(stored)
    /\ p[Len(deltas)] = Merge(stored, deltas)
    /\ \A i \in 1..Len(deltas) : p[i] = MergeDelta(p[i - 1], deltas[i])

LEMMA MergeGoes ==
    ASSUME NEW stored \in CartSeqs, NEW deltas \in Seq(Deltas)
    PROVE  \E p : MergePath(p, stored, deltas)
<1> DEFINE A == CartSeqs
           Made(iter) == iter = [S \in SUBSET DOMAIN deltas |->
                             IF S = {} THEN Loaded(stored)
                             ELSE MergeDelta(iter[S \ {Max(S)}], deltas[Max(S)])]
           it == CHOOSE iter : Made(iter)
<1>1. PICK n \in Nat : /\ n = Len(deltas) /\ DOMAIN deltas = 1..n
                       /\ \A i \in 1..n : deltas[i] \in Deltas
    OBVIOUS
<1> DEFINE next == [x \in A \X (1..n) |-> MergeDelta(x[1], deltas[x[2]])]
<1>2. \A x \in A, i \in 1..n : MergeDelta(x, deltas[i]) \in A
    BY <1>1, DeltaMerged DEF Heeds
<1>3. /\ next \in [A \X (1..n) -> A]
      /\ \A x \in A, i \in 1..n : next[<<x, i>>] = MergeDelta(x, deltas[i])
    BY <1>1, <1>2
<1>4. Loaded(stored) \in A
    BY StoredIsLoaded
<1> HIDE DEF next, A
<1>5. PICK g : FoldsTo(g, A, Loaded(stored), n, next)
    BY <1>3, <1>4, FoldDefined
<1>6. \A S \in SUBSET (1..n) : S # {} => Max(S) \in 1..n
    BY MaxOfSome
<1>7. Made(g)
    <2>1. \A S \in SUBSET (1..n) : S # {} => g[S \ {Max(S)}] \in A
        BY <1>5 DEF FoldsTo
    <2>2. \A S \in SUBSET (1..n) :
              g[S] = IF S = {} THEN Loaded(stored) ELSE MergeDelta(g[S \ {Max(S)}], deltas[Max(S)])
        BY <1>3, <1>5, <1>6, <2>1 DEF FoldsTo
    <2>3. g = [S \in SUBSET (1..n) |-> g[S]]
        BY <1>5 DEF FoldsTo
    <2> QED BY <1>1, <2>2, <2>3
<1>8. Made(it)
    BY <1>7
<1>9. Merge(stored, deltas) = it[1..n]
    BY <1>1 DEF Merge, FoldLeft, MapThenFoldSet
<1>10. Follows(it, A, Loaded(stored), n, next, Merge(stored, deltas))
    <2> HIDE DEF it
    <2> QED BY <1>1, <1>3, <1>6, <1>8, <1>9 DEF Follows
<1> HIDE DEF it, Made
<1>11. PICK p : Path(p, A, Loaded(stored), n, next, Merge(stored, deltas))
    BY <1>3, <1>4, <1>10, FoldPath
<1>12. /\ p \in [0..n -> CartSeqs] /\ p[0] = Loaded(stored) /\ p[n] = Merge(stored, deltas)
       /\ \A i \in 1..n : p[i] = next[<<p[i - 1], i>>]
    BY <1>11 DEF Path, A
<1>13. \A i \in 1..n : p[i] = MergeDelta(p[i - 1], deltas[i])
    <2>1. \A i \in 1..n : p[i - 1] \in A
        BY <1>12 DEF A
    <2> QED BY <1>3, <1>12, <2>1
<1> QED BY <1>1, <1>12, <1>13 DEF MergePath

\* What is owed of the dishes that are not astray is in the cart.
Accounts == [cart : CartSeqs, owed : [Dishes -> Nat], astray : SUBSET Dishes]
Balanced == {a \in Accounts : \A d \in Dishes \ a.astray : Qty(a.cart, d) = a.owed[d]}

Amounts(owing, delta) ==
    IF delta.word.dish = NoDish THEN owing
    ELSE [owing EXCEPT ![delta.word.dish] = Amount(delta, @)]

LEMMA DeltaAccounted ==
    ASSUME NEW a \in Balanced, NEW delta \in Deltas
    PROVE  Account(a, delta) \in Balanced /\ Account(a, delta).cart = MergeDelta(a.cart, delta)
<1> DEFINE b == Account(a, delta)
           e == delta.word.dish
<1>1. a.cart \in CartSeqs /\ a.owed \in [Dishes -> Nat] /\ a.astray \in SUBSET Dishes
    BY DEF Balanced, Accounts
<1>2. e \in Dishes \cup {NoDish}
    BY DEF Deltas, Words
<1>3. Heeds(a.cart, MergeDelta(a.cart, delta), delta)
    BY <1>1, DeltaMerged
<1>4. /\ b.cart = MergeDelta(a.cart, delta)
      /\ b.owed = Amounts(a.owed, delta)
      /\ b.astray = IF e # NoDish /\ Strays(a.cart, delta) THEN a.astray \cup {e} ELSE a.astray
    BY DEF Account, Amounts
<1>5. /\ b = [cart |-> b.cart, owed |-> b.owed, astray |-> b.astray]
    BY DEF Account
<1>6. /\ b.owed \in [Dishes -> Nat]
      /\ \A d \in Dishes : b.owed[d] = IF d = e THEN Amount(delta, a.owed[d]) ELSE a.owed[d]
    <2>1. \A d \in Dishes : a.owed[d] \in Nat /\ Amount(delta, a.owed[d]) \in Nat
        BY <1>1, AmountIsNat
    <2> HIDE DEF b
    <2>2. CASE e = NoDish
        BY <2>2, <1>1, <1>4, NoneAssumption DEF Amounts
    <2>3. CASE e # NoDish
        BY <2>1, <2>3, <1>1, <1>2, <1>4 DEF Amounts
    <2> QED BY <2>2, <2>3
<1> HIDE DEF b
<1>7. b \in Accounts
    BY <1>1, <1>2, <1>3, <1>4, <1>5, <1>6 DEF Accounts, Heeds
<1>8. ASSUME NEW d \in Dishes \ b.astray PROVE Qty(b.cart, d) = b.owed[d]
    <2>1. d \notin a.astray /\ Qty(a.cart, d) = a.owed[d]
        BY <1>4 DEF Balanced
    <2>2. CASE d # e
        BY <2>1, <2>2, <1>3, <1>4, <1>6 DEF Heeds
    <2>3. CASE d = e
        <3>1. ~Strays(a.cart, delta)
            BY <2>3, <1>4, NoneAssumption
        <3> QED BY <2>1, <2>3, <3>1, <1>3, <1>4, <1>6 DEF Heeds
    <2> QED BY <2>2, <2>3
<1> QED BY <1>4, <1>7, <1>8 DEF b, Balanced

Opened(stored) == [cart |-> Loaded(stored), owed |-> owed, astray |-> astray]

\* The account's cart is the merged one, and what is owed is in it.
LEMMA MergeAccounted ==
    ASSUME NEW stored \in CartSeqs, NEW deltas \in Seq(Deltas), Opened(stored) \in Balanced
    PROVE  /\ FoldLeft(Account, Opened(stored), deltas) \in Balanced
           /\ FoldLeft(Account, Opened(stored), deltas).cart = Merge(stored, deltas)
<1> DEFINE A == Balanced
           Made(iter) == iter = [S \in SUBSET DOMAIN deltas |->
                             IF S = {} THEN Opened(stored)
                             ELSE Account(iter[S \ {Max(S)}], deltas[Max(S)])]
           it == CHOOSE iter : Made(iter)
<1>1. PICK n \in Nat : /\ n = Len(deltas) /\ DOMAIN deltas = 1..n
                       /\ \A i \in 1..n : deltas[i] \in Deltas
    OBVIOUS
<1> DEFINE next == [x \in A \X (1..n) |-> Account(x[1], deltas[x[2]])]
<1> DEFINE Total == FoldLeft(Account, Opened(stored), deltas)
<1>2. \A x \in A, i \in 1..n : Account(x, deltas[i]) \in A
    BY <1>1, DeltaAccounted
<1>3. /\ next \in [A \X (1..n) -> A]
      /\ \A x \in A, i \in 1..n : next[<<x, i>>] = Account(x, deltas[i])
    BY <1>1, <1>2
<1>4. Opened(stored) \in A
    OBVIOUS
<1> HIDE DEF next, A
<1>5. PICK g : FoldsTo(g, A, Opened(stored), n, next)
    BY <1>3, <1>4, FoldDefined
<1>6. \A S \in SUBSET (1..n) : S # {} => Max(S) \in 1..n
    BY MaxOfSome
<1>7. Made(g)
    <2>1. \A S \in SUBSET (1..n) : S # {} => g[S \ {Max(S)}] \in A
        BY <1>5 DEF FoldsTo
    <2>2. \A S \in SUBSET (1..n) :
              g[S] = IF S = {} THEN Opened(stored) ELSE Account(g[S \ {Max(S)}], deltas[Max(S)])
        BY <1>3, <1>5, <1>6, <2>1 DEF FoldsTo
    <2>3. g = [S \in SUBSET (1..n) |-> g[S]]
        BY <1>5 DEF FoldsTo
    <2> QED BY <1>1, <2>2, <2>3
<1>8. Made(it)
    BY <1>7
<1>9. Total = it[1..n]
    BY <1>1 DEF Total, FoldLeft, MapThenFoldSet
<1>10. Follows(it, A, Opened(stored), n, next, Total)
    <2> HIDE DEF it
    <2> QED BY <1>1, <1>3, <1>6, <1>8, <1>9 DEF Follows
<1> HIDE DEF it, Made
<1>11. PICK p : Path(p, A, Opened(stored), n, next, Total)
    BY <1>3, <1>4, <1>10, FoldPath
<1>12. Total \in Balanced /\ p[0] = Opened(stored) /\ p[n] = Total
    BY <1>11 DEF Path, A
<1>13. PICK c : MergePath(c, stored, deltas)
    BY MergeGoes
<1> DEFINE T == {i \in 0..n : p[i].cart = c[i]}
<1>14. 0 \in T
    BY <1>12, <1>13 DEF MergePath, Opened
<1>15. ASSUME NEW i \in 1..n, i - 1 \in T PROVE i \in T
    <2>1. i - 1 \in 0..n /\ i \in 0..n /\ p[i - 1] \in Balanced
        BY <1>11 DEF Path, A
    <2>2. p[i] = Account(p[i - 1], deltas[i])
        BY <1>3, <1>11, <2>1 DEF Path, A
    <2>3. p[i].cart = MergeDelta(p[i - 1].cart, deltas[i])
        BY <1>1, <2>1, <2>2, DeltaAccounted
    <2>4. c[i] = MergeDelta(c[i - 1], deltas[i])
        BY <1>1, <1>13 DEF MergePath
    <2> QED BY <1>15, <2>1, <2>3, <2>4
<1>16. n \in T
    <2>1. \A i \in 1..n : i - 1 \in T => i \in T
        BY <1>15
    <2>2. \A i \in 0..n : i \in T
        <3> HIDE DEF T
        <3> QED BY <1>14, <2>1, Along
    <2> HIDE DEF T
    <2> QED BY <2>2, n \in 0..n
<1> QED BY <1>1, <1>12, <1>13, <1>16 DEF MergePath

-----------------------------------------------------------------------------
(* validate_order *)

\* A line that is kept keeps its dish and quantity.
LEMMA LineKept ==
    ASSUME NEW kept \in Seq(StoredLines), NEW line \in CartLines
    PROVE  /\ Keep(kept, line) \in Seq(StoredLines)
           /\ \A d \in Dishes :
                  Qty(Keep(kept, line), d)
                      = Qty(kept, d) + (IF d \in stopped THEN 0 ELSE Weight(line, d))
<1>1. kept \in CartSeqs
    BY LinesAreLines
<1>2. DishOf(line) = line.word.dish /\ line.word.dish \in Dishes \cup {NoDish}
    BY DishOfWord
<1>3. \A d \in Dishes : Qty(kept, d) \in Nat
    BY <1>1, QtyIsNat
<1>4. CASE DishOf(line) \in stopped \cup {NoDish}
    <2>1. Keep(kept, line) = kept
        BY <1>4 DEF Keep
    <2>2. \A d \in Dishes : d \notin stopped => Weight(line, d) = 0
        BY <1>4, NoneAssumption DEF Weight
    <2> QED BY <2>1, <2>2, <1>3
<1>5. CASE DishOf(line) \notin stopped \cup {NoDish}
    <2> DEFINE new == [word |-> Named(line), dish |-> DishOf(line), qty |-> line.qty]
    <2>1. Keep(kept, line) = Append(kept, new)
        BY <1>5 DEF Keep
    <2>2. new \in StoredLines /\ new.qty = line.qty
        <3>1. line \in Lines /\ line.qty > 0 /\ Agrees(line)
            BY DEF CartLines
        <3>2. Named(line) \in Words /\ Named(line).form # "id" /\ Named(line).dish = DishOf(line)
            <4>1. CASE line.word.form = "id"
                <5>1. line.dish # NoDish
                    BY <1>2, <1>5, <3>1, <4>1 DEF Agrees
                <5>2. Named(line) = [dish |-> line.dish, form |-> "name"]
                    BY <4>1, <5>1 DEF Named
                <5> QED BY <3>1, <5>2 DEF Lines, Words, DishOf
            <4>2. CASE line.word.form # "id"
                BY <3>1, <4>2 DEF Named, DishOf, Lines
            <4> QED BY <4>1, <4>2
        <3> QED BY <1>2, <1>5, <3>1, <3>2 DEF StoredLines, CartLines, Lines, Agrees
    <2>3. new \in CartLines
        BY <2>2, LinesAreLines
    <2>4. DishOf(new) = DishOf(line)
        BY <2>3, DishOfWord DEF DishOf
    <2> HIDE DEF new
    <2>5. \A d \in Dishes : d \in stopped => Weight(line, d) = 0
        BY <1>5 DEF Weight
    <2>6. \A d : Weight(new, d) = Weight(line, d)
        BY <2>2, <2>4 DEF Weight
    <2>7. \A d \in Dishes : Qty(Append(kept, new), d) = Qty(kept, d) + Weight(line, d)
        BY <1>1, <2>3, <2>6, QtyAppend
    <2> QED BY <2>1, <2>2, <2>5, <2>7
<1> QED BY <1>4, <1>5

\* Validation strikes out the dishes on stop, and no other.
LEMMA CartValidated ==
    ASSUME NEW cart \in CartSeqs
    PROVE  /\ Validated(cart) \in Seq(StoredLines)
           /\ \A d \in Dishes : Qty(Validated(cart), d) = IF d \in stopped THEN 0 ELSE Qty(cart, d)
<1> DEFINE A == Seq(StoredLines)
           Made(iter) == iter = [S \in SUBSET DOMAIN cart |->
                             IF S = {} THEN <<>> ELSE Keep(iter[S \ {Max(S)}], cart[Max(S)])]
           it == CHOOSE iter : Made(iter)
<1>1. PICK n \in Nat : /\ n = Len(cart) /\ DOMAIN cart = 1..n
                       /\ \A i \in 1..n : cart[i] \in CartLines
    BY DEF CartSeqs
<1> DEFINE next == [x \in A \X (1..n) |-> Keep(x[1], cart[x[2]])]
<1>2. \A x \in A, i \in 1..n : Keep(x, cart[i]) \in A
    BY <1>1, LineKept
<1>3. /\ next \in [A \X (1..n) -> A]
      /\ \A x \in A, i \in 1..n : next[<<x, i>>] = Keep(x, cart[i])
    BY <1>1, <1>2
<1>4. <<>> \in A
    BY DEF A
<1> HIDE DEF next, A
<1>5. PICK g : FoldsTo(g, A, <<>>, n, next)
    BY <1>3, <1>4, FoldDefined
<1>6. \A S \in SUBSET (1..n) : S # {} => Max(S) \in 1..n
    BY MaxOfSome
<1>7. Made(g)
    <2>1. \A S \in SUBSET (1..n) : S # {} => g[S \ {Max(S)}] \in A
        BY <1>5 DEF FoldsTo
    <2>2. \A S \in SUBSET (1..n) :
              g[S] = IF S = {} THEN <<>> ELSE Keep(g[S \ {Max(S)}], cart[Max(S)])
        BY <1>3, <1>5, <1>6, <2>1 DEF FoldsTo
    <2>3. g = [S \in SUBSET (1..n) |-> g[S]]
        BY <1>5 DEF FoldsTo
    <2> QED BY <1>1, <2>2, <2>3
<1>8. Made(it)
    BY <1>7
<1>9. Validated(cart) = it[1..n]
    BY <1>1 DEF Validated, FoldLeft, MapThenFoldSet
<1>10. Follows(it, A, <<>>, n, next, Validated(cart))
    <2> HIDE DEF it
    <2> QED BY <1>1, <1>3, <1>6, <1>8, <1>9 DEF Follows
<1> HIDE DEF it, Made
<1>11. PICK p : Path(p, A, <<>>, n, next, Validated(cart))
    BY <1>3, <1>4, <1>10, FoldPath
<1>12. Validated(cart) \in Seq(StoredLines) /\ p[0] = <<>> /\ p[n] = Validated(cart)
    BY <1>11 DEF Path, A
<1>13. ASSUME NEW d \in Dishes
       PROVE  Qty(Validated(cart), d) = IF d \in stopped THEN 0 ELSE Qty(cart, d)
    <2>1. PICK q : Sums(q, cart, d) /\ Qty(cart, d) = q[n]
        BY <1>1, QtySums
    <2> DEFINE T == {i \in 0..n : Qty(p[i], d) = IF d \in stopped THEN 0 ELSE q[i]}
    <2>2. 0 \in T
        BY <1>12, <2>1, QtyEmpty DEF Sums
    <2>3. ASSUME NEW i \in 1..n, i - 1 \in T PROVE i \in T
        <3>1. i - 1 \in 0..n /\ i \in 0..n /\ p[i - 1] \in Seq(StoredLines)
            BY <1>11 DEF Path, A
        <3>2. p[i] = Keep(p[i - 1], cart[i])
            BY <1>3, <1>11, <3>1 DEF Path, A
        <3>3. Qty(p[i], d) = Qty(p[i - 1], d) + (IF d \in stopped THEN 0 ELSE Weight(cart[i], d))
            BY <1>1, <3>1, <3>2, LineKept
        <3>4. q[i] = q[i - 1] + Weight(cart[i], d)
            BY <1>1, <2>1, SumsStep
        <3> QED BY <2>3, <3>1, <3>3, <3>4
    <2>4. \A i \in 1..n : i - 1 \in T => i \in T
        BY <2>3
    <2>5. \A i \in 0..n : i \in T
        <3> HIDE DEF T
        <3> QED BY <2>2, <2>4, Along
    <2> QED BY <1>12, <2>1, <2>5, n \in 0..n
<1> QED BY <1>12, <1>13

\* A line is not more than the dish.
LEMMA LineInQty ==
    ASSUME NEW cart \in CartSeqs, NEW k \in DOMAIN cart
    PROVE  cart[k].qty <= Qty(cart, DishOf(cart[k]))
<1> DEFINE d == DishOf(cart[k])
<1>1. PICK q : Sums(q, cart, d) /\ Qty(cart, d) = q[Len(cart)]
    BY QtySums
<1>2. Len(cart) \in Nat /\ k \in 1..Len(cart) /\ Len(cart) \in k..Len(cart)
    BY DEF CartSeqs
<1>3. q[Len(cart)] >= Weight(cart[k], d)
    BY <1>1, <1>2, SumsBehind
<1>4. Weight(cart[k], d) = cart[k].qty
    BY DEF Weight
<1>5. Weight(cart[k], d) \in Nat /\ Qty(cart, d) \in Nat
    BY <1>1, <1>2, SumsStep, QtyIsNat
<1> QED BY <1>1, <1>3, <1>4, <1>5

-----------------------------------------------------------------------------
(* filter_order_actions_idempotent *)

\* When no delta is new, none is accepted.
LEMMA DeltasAccepted ==
    ASSUME NEW m, NEW deltas \in Seq(Deltas)
    PROVE  /\ Accepted(m, deltas) \in Seq(Deltas)
           /\ Fresh(m, deltas) = {} => Accepted(m, deltas) = <<>>
<1> DEFINE places == [i \in DOMAIN deltas |-> i]
           Took(s, i) == IF i \in Fresh(m, deltas) THEN Append(s, deltas[i]) ELSE s
           A == {s \in Seq(Deltas) : Fresh(m, deltas) = {} => s = <<>>}
           Made(iter) == iter = [S \in SUBSET DOMAIN places |->
                             IF S = {} THEN <<>> ELSE Took(iter[S \ {Max(S)}], places[Max(S)])]
           it == CHOOSE iter : Made(iter)
<1>1. PICK n \in Nat : DOMAIN places = 1..n /\ \A i \in 1..n : places[i] = i /\ deltas[i] \in Deltas
    OBVIOUS
<1> DEFINE next == [x \in A \X (1..n) |-> Took(x[1], places[x[2]])]
<1>2. \A x \in A, i \in 1..n : Took(x, places[i]) \in A
    BY <1>1
<1>3. /\ next \in [A \X (1..n) -> A]
      /\ \A x \in A, i \in 1..n : next[<<x, i>>] = Took(x, places[i])
    BY <1>1, <1>2
<1>4. <<>> \in A
    BY DEF A
<1> HIDE DEF next, A
<1>5. PICK g : FoldsTo(g, A, <<>>, n, next)
    BY <1>3, <1>4, FoldDefined
<1>6. \A S \in SUBSET (1..n) : S # {} => Max(S) \in 1..n
    BY MaxOfSome
<1>7. Made(g)
    <2>1. \A S \in SUBSET (1..n) : S # {} => g[S \ {Max(S)}] \in A
        BY <1>5 DEF FoldsTo
    <2>2. \A S \in SUBSET (1..n) :
              g[S] = IF S = {} THEN <<>> ELSE Took(g[S \ {Max(S)}], places[Max(S)])
        BY <1>3, <1>5, <1>6, <2>1 DEF FoldsTo
    <2>3. g = [S \in SUBSET (1..n) |-> g[S]]
        BY <1>5 DEF FoldsTo
    <2> QED BY <1>1, <2>2, <2>3
<1>8. Made(it)
    BY <1>7
<1>9. Accepted(m, deltas) = it[1..n]
    BY <1>1 DEF Accepted, Took, places, FoldLeft, MapThenFoldSet
<1>10. Follows(it, A, <<>>, n, next, Accepted(m, deltas))
    <2> HIDE DEF it, Took, places
    <2> QED BY ZenonT(60), <1>1, <1>3, <1>6, <1>8, <1>9 DEF Follows
<1> HIDE DEF it, Made
<1>11. PICK p : Path(p, A, <<>>, n, next, Accepted(m, deltas))
    BY <1>3, <1>4, <1>10, FoldPath
<1>12. p[n] \in A /\ p[n] = Accepted(m, deltas)
    BY <1>11 DEF Path
<1> QED BY <1>12 DEF A

-----------------------------------------------------------------------------
(* The cart of the draft. *)

\* A message that was saved with all its deltas new has its ids remembered.
LastRemembered ==
    \A x \in last : \A i \in DOMAIN x[2] : Id(x[1], i, x[2][i]) \in ids

CartInv ==
    /\ CartTypeOK
    /\ lines \in Seq(StoredLines)
    /\ QuantitiesFollowDeltas
    /\ LastRemembered

LEMMA CartStarts == CartInit => CartInv
<1> SUFFICES ASSUME CartInit PROVE CartInv
    OBVIOUS
<1> USE DEF CartInit
<1>1. CartTypeOK
    <2>1. \A i \in DOMAIN lines : FALSE
        OBVIOUS
    <2>2. saves \in 0..MaxSaves
        BY MaxAssumption
    <2> QED BY <2>1, <2>2 DEF CartTypeOK
<1>2. QuantitiesFollowDeltas
    BY QtyEmpty DEF QuantitiesFollowDeltas
<1> QED BY <1>1, <1>2 DEF CartInv, LastRemembered

\* What a save leaves in the cart.
LEMMA CartSaved ==
    ASSUME NEW cart \in CartSeqs, Save(cart), saves \in 0..MaxSaves
    PROVE  /\ lines' \in Seq(StoredLines) /\ lines' # <<>>
           /\ \A i \in DOMAIN lines' : /\ lines'[i] \in Lines
                                       /\ lines'[i].dish = lines'[i].word.dish
                                       /\ lines'[i].dish # NoDish /\ lines'[i].word.form # "id"
                                       /\ lines'[i].qty \in 1..MaxQty
           /\ \A d \in Dishes : Qty(lines', d) = IF d \in stopped THEN 0 ELSE Qty(cart, d)
           /\ saves' \in 0..MaxSaves /\ stopped' = stopped
<1> DEFINE next == Validated(cart)
<1>1. /\ next \in Seq(StoredLines)
      /\ \A d \in Dishes : Qty(next, d) = IF d \in stopped THEN 0 ELSE Qty(cart, d)
    BY CartValidated
<1>2. /\ lines' = next /\ next # <<>> /\ saves' \in 0..MaxSaves /\ stopped' = stopped
      /\ \A d \in Dishes : Qty(next, d) <= MaxQty
    BY MaxAssumption DEF Save
<1>3. next \in CartSeqs
    BY <1>1, LinesAreLines
<1> HIDE DEF next
<1>4. ASSUME NEW i \in DOMAIN next
      PROVE  /\ next[i] \in Lines
             /\ next[i].dish = next[i].word.dish
             /\ next[i].dish # NoDish /\ next[i].word.form # "id"
             /\ next[i].qty \in 1..MaxQty
    <2>1. next[i] \in StoredLines
        BY <1>1
    <2>2. next[i] \in CartLines
        BY <2>1, LinesAreLines
    <2>3. /\ next[i] \in Lines /\ next[i].qty \in Nat /\ next[i].qty > 0
          /\ next[i].dish = next[i].word.dish
          /\ next[i].dish \in Dishes /\ next[i].word.form # "id"
        BY <2>1, <2>2 DEF StoredLines, CartLines, Lines, Agrees
    <2>4. DishOf(next[i]) \in Dishes
        BY <2>2, <2>3, DishOfWord
    <2>5. next[i].qty <= Qty(next, DishOf(next[i])) /\ Qty(next, DishOf(next[i])) <= MaxQty
        BY <1>2, <1>3, <2>4, LineInQty
    <2>6. Qty(next, DishOf(next[i])) \in Nat
        BY <1>3, QtyIsNat
    <2>7. next[i].qty \in 1..MaxQty
        BY <2>3, <2>5, <2>6, MaxAssumption
    <2> QED BY <2>3, <2>7, NoneAssumption
<1> QED BY <1>1, <1>2, <1>4

\* A settled cart holds what is owed.
LEMMA CartSettled ==
    ASSUME NEW cart \in CartSeqs, NEW quantities \in [Dishes -> Nat], NEW strayed \in SUBSET Dishes,
           Save(cart), saves \in 0..MaxSaves, Settle(quantities, strayed),
           \A d \in Dishes \ strayed : Qty(cart, d) = quantities[d]
    PROVE  /\ QuantitiesFollowDeltas'
           /\ owed' \in [Dishes -> Nat] /\ astray' \in SUBSET Dishes
<1>1. \A d \in Dishes : Qty(lines', d) = IF d \in stopped THEN 0 ELSE Qty(cart, d)
    BY CartSaved
<1>2. /\ astray' = strayed \ stopped
      /\ owed' = [d \in Dishes |-> IF d \in stopped \cup strayed THEN 0 ELSE quantities[d]]
    BY DEF Settle
<1>3. ASSUME NEW d \in Dishes \ astray' PROVE Qty(lines', d) = owed'[d]
    BY <1>1, <1>2
<1>4. QuantitiesFollowDeltas'
    BY <1>3 DEF QuantitiesFollowDeltas
<1> QED BY <1>2, <1>4

LEMMA CartChanges ==
    ASSUME CartInv, NEW m \in Messages, NEW b \in Batches, Change(m, b)
    PROVE  CartInv'
<1> DEFINE accepted == Accepted(m, b)
           cart == Merge(lines, accepted)
           account == FoldLeft(Account, Opened(lines), accepted)
           kept == Recorded(m, b, Unknown(cart))
<1>1. /\ lines \in CartSeqs /\ saves \in 0..MaxSaves /\ stopped \subseteq Dishes
      /\ owed \in [Dishes -> Nat] /\ astray \in SUBSET Dishes
      /\ \A d \in Dishes \ astray : Qty(lines, d) = owed[d]
      /\ ids \subseteq done /\ twice \in BOOLEAN
    BY LinesAreLines DEF CartInv, CartTypeOK, QuantitiesFollowDeltas
<1>2. b \in Seq(Deltas) /\ accepted \in Seq(Deltas)
    BY BatchesAssumption, DeltasAccepted
<1>3. Opened(lines) \in Balanced
    <2>1. Loaded(lines) \in CartSeqs /\ \A d : Qty(Loaded(lines), d) = Qty(lines, d)
        BY <1>1, StoredIsLoaded
    <2> QED BY <1>1, <2>1 DEF Opened, Balanced, Accounts
<1>4. account \in Balanced /\ account.cart = cart
    <2> HIDE DEF accepted
    <2> QED BY <1>1, <1>2, <1>3, MergeAccounted
<1>5. /\ Save(cart) /\ Settle(account.owed, account.astray)
      /\ ids' = kept /\ done' = done \cup kept
      /\ last' = IF Fresh(m, b) = DOMAIN b /\ ~Unknown(cart) THEN {<<m, b>>} ELSE {}
      /\ twice' = (twice \/ NewIds(m, b) \cap done # {})
    BY DEF Change, Opened
<1> HIDE DEF accepted, account
<1>6. /\ cart \in CartSeqs /\ account.owed \in [Dishes -> Nat] /\ account.astray \in SUBSET Dishes
      /\ \A d \in Dishes \ account.astray : Qty(cart, d) = account.owed[d]
    BY <1>4 DEF Balanced, Accounts
<1> HIDE DEF cart
<1>7. /\ QuantitiesFollowDeltas'
      /\ owed' \in [Dishes -> Nat] /\ astray' \in SUBSET Dishes
    BY <1>1, <1>5, <1>6, CartSettled
<1>8. LastRemembered'
    <2>1. ASSUME NEW x \in last', NEW i \in DOMAIN x[2] PROVE Id(x[1], i, x[2][i]) \in ids'
        <3>1. Fresh(m, b) = DOMAIN b /\ ~Unknown(cart) /\ x[1] = m /\ x[2] = b
            BY <1>5
        <3>2. Id(m, i, b[i]) \in NewIds(m, b)
            BY <3>1 DEF NewIds
        <3> QED BY <1>5, <3>1, <3>2 DEF Recorded
    <2> QED BY <2>1 DEF LastRemembered
<1>9. CartTypeOK'
    <2>1. /\ lines' # <<>> /\ saves' \in 0..MaxSaves /\ stopped' = stopped
          /\ \A i \in DOMAIN lines' : /\ lines'[i] \in Lines
                                      /\ lines'[i].dish = lines'[i].word.dish
                                      /\ lines'[i].dish # NoDish /\ lines'[i].word.form # "id"
                                      /\ lines'[i].qty \in 1..MaxQty
        BY <1>1, <1>5, <1>6, CartSaved
    <2>2. last' \subseteq Messages \X Batches /\ ids' \subseteq done' /\ twice' \in BOOLEAN
        BY <1>1, <1>5
    <2> QED BY <1>1, <1>7, <2>1, <2>2 DEF CartTypeOK
<1>10. lines' \in Seq(StoredLines)
    BY <1>1, <1>5, <1>6, CartSaved
<1> QED BY <1>7, <1>8, <1>9, <1>10 DEF CartInv

\* The ways to change a cart without deltas.
LEMMA CartReplaced ==
    ASSUME CartInv, NEW cart \in CartSeqs, NEW quantities \in [Dishes -> Nat],
           NEW strayed \in SUBSET Dishes, Replace(cart), Settle(quantities, strayed),
           \A d \in Dishes \ strayed : Qty(cart, d) = quantities[d]
    PROVE  CartInv'
<1>1. saves \in 0..MaxSaves /\ stopped \subseteq Dishes /\ ids \subseteq done /\ twice \in BOOLEAN
    BY DEF CartInv, CartTypeOK
<1>2. Save(cart) /\ ids' = {} /\ last' = {} /\ done' = done /\ twice' = twice
    BY DEF Replace, Carried
<1>3. /\ QuantitiesFollowDeltas'
      /\ owed' \in [Dishes -> Nat] /\ astray' \in SUBSET Dishes
    BY <1>1, <1>2, CartSettled
<1>4. /\ lines' \in Seq(StoredLines) /\ saves' \in 0..MaxSaves /\ stopped' = stopped
      /\ \A i \in DOMAIN lines' : /\ lines'[i] \in Lines
                                  /\ lines'[i].dish = lines'[i].word.dish
                                  /\ lines'[i].dish # NoDish /\ lines'[i].word.form # "id"
                                  /\ lines'[i].qty \in 1..MaxQty
    BY <1>1, <1>2, CartSaved
<1>5. CartTypeOK'
    BY <1>1, <1>2, <1>3, <1>4 DEF CartTypeOK
<1> QED BY <1>2, <1>3, <1>4, <1>5 DEF CartInv, LastRemembered

LEMMA CartNextKeeps == CartInv /\ [CartNext]_cartVars => CartInv'
<1> SUFFICES ASSUME CartInv, [CartNext]_cartVars PROVE CartInv'
    OBVIOUS
<1>1. /\ lines \in Seq(StoredLines) /\ lines \in CartSeqs
      /\ owed \in [Dishes -> Nat] /\ astray \in SUBSET Dishes /\ stopped \in SUBSET Dishes
      /\ \A d \in Dishes \ astray : Qty(lines, d) = owed[d]
    BY LinesAreLines DEF CartInv, CartTypeOK, QuantitiesFollowDeltas
<1>2. ASSUME NEW m \in Messages, NEW b \in Batches, Change(m, b) PROVE CartInv'
    BY <1>2, CartChanges
<1>3. ASSUME NEW l \in Lists, FullList(l) PROVE CartInv'
    <2> DEFINE quantities == [d \in Dishes |-> Qty(Validated(l), d)]
    <2>1. l \in CartSeqs
        BY ListsAssumption, LinesAreLines
    <2>2. /\ \A d \in Dishes : Qty(l, d) \in Nat
          /\ \A d \in Dishes : Qty(Validated(l), d) = IF d \in stopped THEN 0 ELSE Qty(l, d)
        BY <2>1, QtyIsNat, CartValidated
    <2>3. Replace(l) /\ Settle(quantities, {})
        BY <1>3 DEF FullList
    <2> DEFINE plain == [d \in Dishes |-> Qty(l, d)]
    <2>4. Settle(plain, {})
        BY <2>2, <2>3 DEF Settle
    <2>5. plain \in [Dishes -> Nat] /\ \A d \in Dishes \ {} : Qty(l, d) = plain[d]
        BY <2>2
    <2> HIDE DEF plain, quantities
    <2> QED BY <2>1, <2>3, <2>4, <2>5, CartReplaced
<1>4. ASSUME NEW l \in Lists, Rebuild(l) PROVE CartInv'
    BY <1>3, <1>4 DEF Rebuild
<1>5. CASE Reprice
    BY <1>1, <1>5, CartReplaced DEF Reprice
<1>6. CASE Close
    <2>1. /\ lines' = <<>> /\ ids' = {} /\ done' = {} /\ last' = {}
          /\ owed' = [d \in Dishes |-> 0] /\ astray' = {}
          /\ UNCHANGED <<stopped, twice, saves>>
        BY <1>6 DEF Close
    <2>2. CartTypeOK'
        BY <2>1 DEF CartInv, CartTypeOK
    <2>3. QuantitiesFollowDeltas'
        BY <2>1, QtyEmpty DEF QuantitiesFollowDeltas
    <2> QED BY <2>1, <2>2, <2>3 DEF CartInv, LastRemembered
<1>7. ASSUME NEW d \in Dishes, StopList(d) PROVE CartInv'
    <2>1. /\ UNCHANGED <<lines, ids, owed, astray, done, twice, last, saves>>
          /\ stopped' \in SUBSET Dishes
        BY <1>1, <1>7 DEF StopList, ghosts
    <2>2. CartTypeOK'
        BY <2>1 DEF CartInv, CartTypeOK
    <2>3. QuantitiesFollowDeltas'
        BY <2>1 DEF CartInv, QuantitiesFollowDeltas
    <2> QED BY <2>1, <2>2, <2>3 DEF CartInv, LastRemembered
<1>8. CASE UNCHANGED cartVars
    <2>1. UNCHANGED <<lines, ids, owed, astray, done, twice, last, saves, stopped>>
        BY <1>8 DEF cartVars, ghosts
    <2>2. CartTypeOK'
        BY <2>1 DEF CartInv, CartTypeOK
    <2>3. QuantitiesFollowDeltas'
        BY <2>1 DEF CartInv, QuantitiesFollowDeltas
    <2> QED BY <2>1, <2>2, <2>3 DEF CartInv, LastRemembered
<1> QED BY <1>2, <1>3, <1>4, <1>5, <1>6, <1>7, <1>8 DEF CartNext

LEMMA CartIsKept == CartSpec => []CartInv
<1>1. CartInv /\ [CartNext]_cartVars => CartInv'
    BY CartNextKeeps
<1> QED BY CartStarts, <1>1, PTL DEF CartSpec

\* Of every dish the cart holds what the accepted deltas and lists come to.
THEOREM CartFollowsDeltas == CartSpec => []QuantitiesFollowDeltas
<1>1. CartInv => QuantitiesFollowDeltas
    BY DEF CartInv
<1> QED BY CartIsKept, <1>1, PTL

\* The lines of a stored cart are looked up, and no more than the bound.
THEOREM CartTypeCorrect == CartSpec => []CartTypeOK
<1>1. CartInv => CartTypeOK
    BY DEF CartInv
<1> QED BY CartIsKept, <1>1, PTL

\* A repeat has no new deltas: the lines are only looked up again.
LEMMA RetryStep ==
    ASSUME CartInv, NEW m \in Messages, NEW b \in Batches, <<m, b>> \in last, Change(m, b),
           NEW d \in Dishes
    PROVE  Qty(lines', d) = IF d \in stopped THEN 0 ELSE Qty(lines, d)
<1>1. lines \in CartSeqs /\ saves \in 0..MaxSaves
    BY LinesAreLines DEF CartInv, CartTypeOK
<1>2. Fresh(m, b) = {}
    <2>1. \A i \in DOMAIN b : Id(m, i, b[i]) \in ids
        BY DEF CartInv, LastRemembered
    <2> QED BY <2>1 DEF Fresh
<1>3. Accepted(m, b) = <<>>
    BY <1>2, BatchesAssumption, DeltasAccepted
<1>4. Merge(lines, <<>>) = Loaded(lines)
    <2>1. PICK p : MergePath(p, lines, <<>>)
        <3>1. <<>> \in Seq(Deltas)
            OBVIOUS
        <3> QED BY <1>1, <3>1, MergeGoes
    <2> QED BY <2>1 DEF MergePath
<1>5. Save(Loaded(lines))
    BY <1>3, <1>4 DEF Change
<1>6. Loaded(lines) \in CartSeqs /\ Qty(Loaded(lines), d) = Qty(lines, d)
    BY <1>1, StoredIsLoaded
<1> QED BY <1>1, <1>5, <1>6, CartSaved

\* A message that is handled again at once leaves the cart as it was.
THEOREM CartOutlivesRetry == CartSpec => RetryHarmless
<1> DEFINE Step == \A m \in Messages, b \in Batches :
               <<m, b>> \in last /\ Change(m, b)
                   => \A d \in Dishes : Qty(lines', d) = IF d \in stopped THEN 0 ELSE Qty(lines, d)
<1>1. CartInv /\ [CartNext]_cartVars => [Step]_cartVars
    BY RetryStep
<1>2. CartSpec => [][Step]_cartVars
    BY CartIsKept, <1>1, PTL DEF CartSpec
<1> QED BY <1>2 DEF RetryHarmless
=============================================================================
