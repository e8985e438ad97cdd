-------------------------- MODULE PaymentLedgerProofs --------------------------
(***************************************************************************)
(* Theorems about PaymentLedger, for any number of requests, payments and  *)
(* transactions.                                                           *)
(***************************************************************************)
EXTENDS PaymentLedger, TLAPS

USE LedgerAssumption

-----------------------------------------------------------------------------
(* Types *)

\* What the input of a request is at the steps that use it, and what an order
\* with a reminder on its way was waiting for.
Fits(x) ==
    /\ x.kind \in {"paid", "failed"} /\ x.step \in {"read", "recorded", "picked"} => x.input \in Payments
    /\ x.kind = "admin" /\ x.step = "read" => x.input \in Prepayments
    /\ x.kind = "edit" /\ x.step \in {"read", "linking"} => x.input \in {"pending", "not_required"}
    /\ x.kind = "expiry" /\ x.step = "linking" => x.was = "pending"

TypeInv == TypeOK /\ \A r \in Requests : Fits(req[r])

\* A step of one request.
LEMMA ReqStep ==
    ASSUME TypeInv, NEW r \in Requests, NEW x \in Requested, Fits(x), req' = [req EXCEPT ![r] = x]
    PROVE  req' \in [Requests -> Requested] /\ \A q \in Requests : Fits(req[q])'
BY DEF TypeInv, TypeOK

\* It goes on to a step that makes no more of its input than the last one.
LEMMA ReqGoto ==
    ASSUME TypeInv, NEW r \in Requests, NEW s \in Steps, Goto(r, s),
           s = "linking" => req[r].step = "linking",
           s \in {"read", "recorded", "picked"} => req[r].step \in {"read", "recorded", "picked"},
           s = "read" => req[r].step = "read"
    PROVE  req' \in [Requests -> Requested] /\ \A q \in Requests : Fits(req[q])'
<1> DEFINE x == [req[r] EXCEPT !.step = s]
<1>1. req[r] \in Requested /\ Fits(req[r])
    BY DEF TypeInv, TypeOK
<1>2. x \in Requested
    BY <1>1 DEF Requested
<1>3. Fits(x)
    BY <1>1 DEF Fits, Requested
<1>4. req' = [req EXCEPT ![r] = x]
    BY DEF Goto
<1> QED BY <1>2, <1>3, <1>4, ReqStep

LEMMA BlankFits == Blank \in Requested /\ Fits(Blank)
<1>1. 0 \in 0..MaxTx
    OBVIOUS
<1> QED BY <1>1 DEF Blank, Requested, Fits, Kinds, Steps, Prepayments

LEMMA ReqEnd ==
    ASSUME TypeInv, NEW r \in Requests, End(r)
    PROVE  req' \in [Requests -> Requested] /\ \A q \in Requests : Fits(req[q])'
<1> DEFINE x == [Blank EXCEPT !.kind = req[r].kind, !.step = "done"]
<1>1. req[r].kind \in Kinds
    BY DEF TypeInv, TypeOK, Requested
<1>2. x \in Requested /\ Fits(x)
    BY <1>1, BlankFits DEF Requested, Fits, Steps
<1>3. req' = [req EXCEPT ![r] = x]
    BY DEF End
<1> QED BY <1>2, <1>3, ReqStep

LEMMA TypeInit == Init => TypeInv
<1> SUFFICES ASSUME Init PROVE TypeInv
    OBVIOUS
<1>1. txs \in [Ids -> Txs]
    BY DEF Init, NewTx, NoTx, Txs
<1>2. Blank \in Requested /\ Fits(Blank)
    BY BlankFits
<1>3. prepay \in Prepayments
    BY DEF Init, Prepayments
<1>4. req \in [Requests -> Requested] /\ \A r \in Requests : Fits(req[r])
    BY <1>2 DEF Init
<1>5. 2 \in 1..(MaxTx + 1)
    OBVIOUS
<1> QED BY <1>1, <1>3, <1>4, <1>5 DEF Init, TypeInv, TypeOK

LEMMA TypeWebhook ==
    ASSUME TypeInv, NEW r \in Requests, Record(r) \/ PickTx(r) \/ SaveWebhook(r)
    PROVE  TypeInv'
<1>0. TypeOK /\ req[r] \in Requested /\ Fits(req[r])
    BY DEF TypeInv, TypeOK
<1>1. CASE Record(r)
    <2>1. UNCHANGED <<order, txs, next, events, guest, lost>>
        BY <1>1 DEF Record
    <2>2. Goto(r, "recorded") \/ End(r)
        BY <1>1 DEF Record
    <2>3. req' \in [Requests -> Requested] /\ \A q \in Requests : Fits(req[q])'
        BY <1>1, <2>2, ReqGoto, ReqEnd DEF Record, Steps
    <2> QED BY <1>0, <2>1, <2>3 DEF TypeInv, TypeOK, order, guest
<1>2. CASE PickTx(r)
    <2> DEFINE x == [req[r] EXCEPT !.step = "picked", !.pick = Latest(Pending)]
    <2>1. UNCHANGED <<order, txs, next, events, guest, lost>> /\ req' = [req EXCEPT ![r] = x]
        BY <1>2 DEF PickTx
    <2>2. Latest(Pending) \subseteq Ids
        BY DEF Latest, Pending
    <2>3. x \in Requested /\ Fits(x)
        BY <1>0, <1>2, <2>2 DEF PickTx, Webhook, Requested, Fits, Steps
    <2> QED BY <1>0, <2>1, <2>3, ReqStep DEF TypeInv, TypeOK, order, guest
<1>3. CASE SaveWebhook(r)
    <2>1. req[r].kind \in {"paid", "failed"} /\ req[r].input \in Payments
        BY <1>0, <1>3 DEF SaveWebhook, Webhook, Fits
    <2>2. txs' \in [Ids -> Txs]
        BY ZenonT(60), <1>0, <1>3, <2>1 DEF SaveWebhook, TypeOK, Txs
    <2>3. next' \in 1..(MaxTx + 1)
        <3>1. next' = next \/ (next \in 1..MaxTx /\ next' = next + 1)
            BY <1>3 DEF SaveWebhook, Ids
        <3> QED BY <1>0, <3>1 DEF TypeOK
    <2>4. events' \subseteq AdminEvents \cup WebhookEvents
        <3>1. WebhookEvent(r) \in WebhookEvents
            BY <2>1 DEF WebhookEvents, WebhookEvent
        <3> QED BY <1>0, <1>3, <3>1 DEF SaveWebhook, TypeOK
    <2>5. prepay' \in Prepayments
        BY <1>0, <1>3 DEF SaveWebhook, TypeOK, Written, Prepayments
    <2>6. Goto(r, "dispatch") \/ End(r)
        BY <1>3 DEF SaveWebhook
    <2>7. req' \in [Requests -> Requested] /\ \A q \in Requests : Fits(req[q])'
        BY <1>3, <2>6, ReqGoto, ReqEnd DEF SaveWebhook, Steps
    <2> QED BY <1>0, <1>3, <2>2, <2>3, <2>4, <2>5, <2>7 DEF SaveWebhook, TypeInv, TypeOK, guest
<1> QED BY <1>1, <1>2, <1>3

LEMMA TypeBegin ==
    ASSUME TypeInv, NEW r \in Requests, Receive(r) \/ AdminRead(r) \/ SplitRead(r) \/ EditRead(r)
    PROVE  TypeInv'
<1>0. TypeOK
    BY DEF TypeInv
<1>1. PICK k \in Kinds \ {"none"}, in \in Payments \cup Prepayments :
        /\ Begin(r, k, in)
        /\ k \in {"paid", "failed"} => in \in Payments
        /\ k = "admin" => in \in Prepayments
        /\ k = "edit" => in \in {"pending", "not_required"}
    BY DEF Receive, AdminRead, SplitRead, EditRead, Kinds, Prepayments
<1> DEFINE x == [Blank EXCEPT !.kind = k, !.step = "read", !.was = prepay, !.version = version,
                              !.input = in]
<1>2. x \in Requested /\ Fits(x)
    BY <1>0, <1>1, BlankFits DEF TypeOK, Requested, Fits, Steps
<1>3. req' = [req EXCEPT ![r] = x] /\ UNCHANGED <<order, txs, next, events, guest, lost>>
    BY <1>1 DEF Begin
<1> QED BY <1>0, <1>2, <1>3, ReqStep DEF TypeInv, TypeOK, order, guest

LEMMA TypeHand ==
    ASSUME TypeInv, NEW r \in Requests, AdminSave(r) \/ SplitReset(r) \/ EditUpdate(r) \/ EditCommit(r)
    PROVE  TypeInv'
<1>0. TypeOK /\ req[r] \in Requested /\ Fits(req[r])
    BY DEF TypeInv, TypeOK
<1>1. CASE AdminSave(r)
    <2> DEFINE was == req[r].was
               new == req[r].input
    <2>1. was \in Prepayments /\ new \in Prepayments
        BY <1>0, <1>1 DEF AdminSave, Is, Fits, Requested
    <2>2. AdminEvent(was, new) \subseteq AdminEvents
        BY <2>1 DEF AdminEvent, AdminEventType, AdminEvents, Prepayments
    <2>3. /\ prepay' \in {prepay, new} /\ events' \in {events, events \cup AdminEvent(was, new)}
          /\ Goto(r, "dispatch") \/ End(r)
          /\ UNCHANGED <<version, txs, next, guest, lost>> /\ req[r].step = "read"
        BY <1>1 DEF AdminSave, Written, Is
    <2>4. req' \in [Requests -> Requested] /\ \A q \in Requests : Fits(req[q])'
        BY <2>3, ReqGoto, ReqEnd DEF Steps
    <2> QED BY <1>0, <2>1, <2>2, <2>3, <2>4 DEF TypeInv, TypeOK, guest
<1>2. CASE SplitReset(r)
    <2>1. prepay' \in Prepayments
        BY <1>0, <1>2 DEF SplitReset, Written, TypeOK, Prepayments
    <2> QED BY <1>0, <1>2, <2>1, ReqEnd DEF SplitReset, TypeInv, TypeOK, guest
<1>3. CASE EditUpdate(r)
    <2>1. UNCHANGED <<order, txs, events, guest, lost>>
        BY <1>3 DEF EditUpdate
    <2>2. CASE End(r) /\ UNCHANGED next
        BY <1>0, <2>1, <2>2, ReqEnd DEF TypeInv, TypeOK, order, guest
    <2>3. ASSUME NEW link \in BOOLEAN, link => req[r].input = "pending" /\ next \in Ids,
                 next' = IF link THEN next + 1 ELSE next,
                 req' = [req EXCEPT ![r].step = "linking", ![r].slot = IF link THEN next ELSE 0]
          PROVE  TypeInv'
        <3> DEFINE x == [req[r] EXCEPT !.step = "linking", !.slot = IF link THEN next ELSE 0]
        <3>1. next' \in 1..(MaxTx + 1)
            BY <1>0, <2>3 DEF TypeOK, Ids
        <3>2. (IF link THEN next ELSE 0) \in 0..MaxTx
            BY <1>0, <2>3 DEF TypeOK, Ids
        <3>3. x \in Requested /\ Fits(x)
            BY <1>0, <1>3, <3>2 DEF EditUpdate, Is, Requested, Fits, Steps
        <3>4. req' = [req EXCEPT ![r] = x]
            BY <2>3
        <3> QED BY <1>0, <2>1, <3>1, <3>3, <3>4, ReqStep DEF TypeInv, TypeOK, order, guest
    <2> QED BY <1>3, <2>2, <2>3 DEF EditUpdate
<1>4. CASE EditCommit(r)
    <2>1. prepay' \in Prepayments
        BY <1>0, <1>4 DEF EditCommit, Is, Fits, Prepayments
    <2>2. txs' \in [Ids -> Txs]
        <3>1. PICK s \in {"pending", "failed"} :
                txs' = [i \in Ids |-> IF i = req[r].slot THEN [NewTx EXCEPT !.status = s] ELSE txs[i]]
            BY <1>4 DEF EditCommit
        <3>2. [NewTx EXCEPT !.status = s] \in Txs
            BY DEF NewTx, Txs
        <3> QED BY <1>0, <3>1, <3>2 DEF TypeOK
    <2>3. version' \in Nat
        BY <1>0, <1>4 DEF EditCommit, TypeOK
    <2> QED BY <1>0, <1>4, <2>1, <2>2, <2>3, ReqEnd DEF EditCommit, TypeInv, TypeOK, guest
<1> QED BY <1>1, <1>2, <1>3, <1>4

LEMMA TypeExpire ==
    ASSUME TypeInv, NEW r \in Requests, Expire(r)
    PROVE  TypeInv'
<1>0. TypeOK /\ req[r] \in Requested /\ Fits(req[r])
    BY DEF TypeInv, TypeOK
<1>1. CASE ExpiryRead(r)
    <2> DEFINE x == [Blank EXCEPT !.kind = "expiry", !.step = "picked",
                                  !.pick = {i \in Pending : txs[i].stale}]
    <2>1. req' = [req EXCEPT ![r] = x] /\ UNCHANGED <<order, txs, next, events, guest, lost>>
        BY <1>1 DEF ExpiryRead
    <2>2. x \in Requested /\ Fits(x)
        <3>1. {i \in Pending : txs[i].stale} \subseteq Ids
            BY DEF Pending
        <3> QED BY <3>1, BlankFits DEF Requested, Fits, Kinds, Steps
    <2> QED BY <1>0, <2>1, <2>2, ReqStep DEF TypeInv, TypeOK, order, guest
<1>2. CASE ExpirySave(r)
    <2>1. txs' \in [Ids -> Txs]
        BY <1>0, <1>2 DEF ExpirySave, TypeOK, Txs
    <2>2. req' \in [Requests -> Requested] /\ \A q \in Requests : Fits(req[q])'
        BY <1>2, ReqGoto DEF ExpirySave, Is, Steps
    <2> QED BY <1>0, <1>2, <2>1, <2>2 DEF ExpirySave, TypeInv, TypeOK, order, guest
<1>3. CASE RemindRead(r)
    <2>1. UNCHANGED <<order, txs, events, guest, lost>>
        BY <1>3 DEF RemindRead
    <2>2. PICK i \in req[r].pick :
            \/ /\ prepay = "pending" /\ next \in Ids /\ next' = next + 1
               /\ req' = [req EXCEPT ![r] =
                     [[req[r] EXCEPT !.pick = @ \ {i}] EXCEPT !.step = "linking", !.slot = next, !.was = prepay]]
            \/ req' = [req EXCEPT ![r] = [req[r] EXCEPT !.pick = @ \ {i}]] /\ UNCHANGED next
        BY <1>3 DEF RemindRead
    <2> DEFINE rest == [req[r] EXCEPT !.pick = @ \ {i}]
               x == [rest EXCEPT !.step = "linking", !.slot = next, !.was = prepay]
    <2>3. rest \in Requested /\ Fits(rest)
        BY <1>0 DEF Requested, Fits
    <2>4. CASE req' = [req EXCEPT ![r] = rest] /\ UNCHANGED next
        BY <1>0, <2>1, <2>3, <2>4, ReqStep DEF TypeInv, TypeOK, order, guest
    <2>5. CASE /\ prepay = "pending" /\ next \in Ids /\ next' = next + 1
               /\ req' = [req EXCEPT ![r] = x]
        <3>1. x \in Requested
            <4>1. next \in 0..MaxTx /\ prepay \in Prepayments /\ "linking" \in Steps
                BY <2>5 DEF Prepayments, Ids, Steps
            <4> QED BY <2>3, <4>1 DEF Requested
        <3>2. Fits(x)
            BY <1>3, <2>3, <2>5 DEF RemindRead, Is, Requested, Fits
        <3>3. next' \in 1..(MaxTx + 1)
            BY <2>5 DEF Ids
        <3> QED BY <1>0, <2>1, <2>5, <3>1, <3>2, <3>3, ReqStep DEF TypeInv, TypeOK, order, guest
    <2> QED BY <2>2, <2>4, <2>5
<1>4. CASE RemindSave(r)
    <2>1. prepay' \in Prepayments
        BY <1>0, <1>4 DEF RemindSave, Written, TypeOK, Prepayments
    <2>2. txs' \in [Ids -> Txs]
        BY <1>0, <1>4 DEF RemindSave, NewTx, TypeOK, Txs
    <2>3. req' \in [Requests -> Requested] /\ \A q \in Requests : Fits(req[q])'
        BY <1>4, ReqGoto DEF RemindSave, Is, Steps
    <2> QED BY <1>0, <1>4, <2>1, <2>2, <2>3 DEF RemindSave, TypeInv, TypeOK, guest
<1>5. CASE RemindFails(r) \/ ExpiryEnds(r)
    <2>1. req' \in [Requests -> Requested] /\ \A q \in Requests : Fits(req[q])'
        BY <1>5, ReqGoto, ReqEnd DEF RemindFails, ExpiryEnds, Is, Steps
    <2> QED BY <1>0, <1>5, <2>1 DEF RemindFails, ExpiryEnds, TypeInv, TypeOK, order, guest
<1> QED BY <1>1, <1>2, <1>3, <1>4, <1>5 DEF Expire

LEMMA TypeNotify ==
    ASSUME TypeInv, NEW r \in Requests, Notify(r) \/ Crash(r)
    PROVE  TypeInv'
<1>0. TypeOK
    BY DEF TypeInv
<1>1. req' \in [Requests -> Requested] /\ \A q \in Requests : Fits(req[q])'
    BY ReqGoto, ReqEnd DEF Notify, Dispatch, NotifyRead, NotifySave, NotifySend, Crash, Steps
<1>2. /\ UNCHANGED <<order, txs, next, events>> /\ notified' \in {notified, notified + 1}
      /\ told' \in BOOLEAN /\ failed' \in BOOLEAN /\ lost' \in BOOLEAN
    BY <1>0 DEF Notify, Dispatch, NotifyRead, NotifySave, NotifySend, Crash, Telling, TypeOK, guest
<1> QED BY <1>0, <1>1, <1>2 DEF TypeInv, TypeOK, order

LEMMA TypeNext == TypeInv /\ [Next]_vars => TypeInv'
<1> SUFFICES ASSUME TypeInv, [Next]_vars PROVE TypeInv'
    OBVIOUS
<1>1. CASE UNCHANGED vars
    BY <1>1 DEF vars, order, guest, TypeInv, TypeOK
<1>2. ASSUME NEW i \in Ids, Elapse(i) PROVE TypeInv'
    <2>1. txs' \in [Ids -> Txs]
        BY <1>2 DEF Elapse, TypeInv, TypeOK, Txs
    <2> QED BY <1>2, <2>1 DEF Elapse, TypeInv, TypeOK, order, guest
<1> QED BY <1>1, <1>2, TypeWebhook, TypeBegin, TypeHand, TypeExpire, TypeNotify
        DEF Next, HandleWebhook, HandleAdmin, HandleEdit

\* Every column keeps its type: the ids of the transactions stay in range, and
\* nobody writes a status that is none.
THEOREM TypeCorrect == Spec => []TypeOK
<1>1. Spec => []TypeInv
    BY TypeInit, TypeNext, PTL DEF Spec
<1>2. TypeInv => TypeOK
    BY DEF TypeInv
<1> QED BY <1>1, <1>2, PTL
-----------------------------------------------------------------------------
(* One booking of a payment *)

PaidEvent(p) == <<"webhook_paid", p>>

\* A webhook that has written its event and not committed it.
Recorder(r) == req[r].kind \in {"paid", "failed"} /\ req[r].step \in {"recorded", "picked"}

\* The audit table knows every booking.
PaidRecorded == \A i \in Ids : txs[i].status = "paid" => PaidEvent(txs[i].pid) \in events

\* What a paid webhook is about to book is not booked, and nobody else is about
\* to book it.
RecordersApart ==
    /\ \A r \in Requests : Recorder(r) /\ req[r].kind = "paid" => PaidEvent(req[r].input) \notin events
    /\ \A r, q \in Requests :
          /\ Recorder(r) /\ Recorder(q) /\ req[r].kind = "paid" /\ req[q].kind = "paid"
          /\ req[r].input = req[q].input
          => r = q

\* A webhook writes one transaction.
OnePick ==
    \A r \in Requests : Recorder(r) /\ req[r].step = "picked" => \A i, j \in req[r].pick : i = j

BookInv == PaidRecorded /\ BookedOnce /\ RecordersApart /\ OnePick

LEMMA BookInit == Init => BookInv
BY DEF Init, BookInv, PaidRecorded, BookedOnce, RecordersApart, OnePick, Recorder, Blank, NewTx, NoTx

\* A step that books nothing.
LEMMA BookQuiet ==
    ASSUME BookInv,
           \A q \in Requests : Recorder(q)' => req'[q] = req[q],
           \A i \in Ids : txs'[i].status = "paid" => txs[i].status = "paid" /\ txs'[i].pid = txs[i].pid,
           events \subseteq events', \A p : PaidEvent(p) \in events' => PaidEvent(p) \in events
    PROVE  BookInv'
<1>1. \A q \in Requests : Recorder(q)' => Recorder(q)
    BY DEF Recorder
<1>2. PaidRecorded'
    BY DEF BookInv, PaidRecorded
<1>3. BookedOnce'
    BY DEF BookInv, BookedOnce
<1>4. RecordersApart' /\ OnePick'
    BY <1>1 DEF BookInv, RecordersApart, OnePick
<1> QED BY <1>2, <1>3, <1>4 DEF BookInv

\* A request that goes on to anything else, or ends, is no Recorder.
LEMMA GoesOn ==
    ASSUME TypeInv, NEW r \in Requests,
           End(r) \/ \E s \in Steps \ {"recorded", "picked"} : Goto(r, s)
    PROVE  /\ ~Recorder(r)' /\ \A q \in Requests \ {r} : req'[q] = req[q]
           /\ \A q \in Requests : Recorder(q)' => req'[q] = req[q]
<1>0. req \in [Requests -> Requested]
    BY DEF TypeInv, TypeOK
<1>1. CASE End(r)
    BY <1>0, <1>1 DEF End, Blank, Recorder
<1>2. ASSUME NEW s \in Steps \ {"recorded", "picked"}, Goto(r, s)
      PROVE  ~Recorder(r)' /\ \A q \in Requests \ {r} : req'[q] = req[q]
    <2>1. req'[r].step = s /\ \A q \in Requests \ {r} : req'[q] = req[q]
        BY <1>0, <1>2 DEF Goto, Requested
    <2> QED BY <2>1 DEF Recorder
<1>3. ~Recorder(r)' /\ \A q \in Requests \ {r} : req'[q] = req[q]
    BY <1>1, <1>2
<1> QED BY <1>3

LEMMA BookRecord ==
    ASSUME TypeInv, BookInv, NEW r \in Requests, Record(r)
    PROVE  BookInv'
<1>0. req \in [Requests -> Requested] /\ UNCHANGED <<txs, events>> /\ Webhook(r)
    BY DEF TypeInv, TypeOK, Record
<1>1. CASE End(r)
    BY <1>0, <1>1, BookQuiet DEF End, Recorder
<1>2. CASE Goto(r, "recorded") /\ ~Recorded(r)
    <2>1. /\ req'[r].kind = req[r].kind /\ req'[r].input = req[r].input /\ req'[r].step = "recorded"
          /\ \A q \in Requests \ {r} : req'[q] = req[q]
        BY <1>0, <1>2 DEF Goto, Requested
    <2>2. req[r].kind = "paid" => PaidEvent(req[r].input) \notin events
        BY <1>2 DEF Recorded, WebhookEvent, PaidEvent
    <2>3. \A q \in Requests : Recorder(q) /\ req[q].kind = "paid" /\ req[r].kind = "paid"
                                  => req[q].input # req[r].input
        BY DEF Record, Recorder, Webhook, WebhookEvent
    <2>4. RecordersApart'
        BY <1>0, <2>1, <2>2, <2>3 DEF BookInv, RecordersApart, Recorder
    <2>5. OnePick'
        BY <2>1 DEF BookInv, OnePick, Recorder
    <2> QED BY <1>0, <2>4, <2>5 DEF BookInv, PaidRecorded, BookedOnce
<1> QED BY <1>1, <1>2 DEF Record

LEMMA BookPick ==
    ASSUME TypeInv, BookInv, NEW r \in Requests, PickTx(r)
    PROVE  BookInv'
<1>1. /\ req \in [Requests -> Requested] /\ UNCHANGED <<txs, events>>
      /\ req[r].kind \in {"paid", "failed"} /\ req[r].step = "recorded"
      /\ req' = [req EXCEPT ![r].step = "picked", ![r].pick = Latest(Pending)]
    BY DEF TypeInv, TypeOK, PickTx, Webhook
<1>2. /\ req'[r].kind = req[r].kind /\ req'[r].input = req[r].input
      /\ req'[r].pick = Latest(Pending)
      /\ \A q \in Requests \ {r} : req'[q] = req[q]
    BY <1>1 DEF Requested
<1>3. \A i, j \in Latest(Pending) : i = j
    BY DEF Latest, Pending, Ids
<1>4. RecordersApart'
    BY <1>1, <1>2 DEF BookInv, RecordersApart, Recorder
<1>5. OnePick'
    BY <1>2, <1>3 DEF BookInv, OnePick, Recorder
<1> QED BY <1>1, <1>4, <1>5 DEF BookInv, PaidRecorded, BookedOnce

LEMMA BookSave ==
    ASSUME TypeInv, BookInv, NEW r \in Requests, SaveWebhook(r)
    PROVE  BookInv'
<1>0. /\ req \in [Requests -> Requested] /\ txs \in [Ids -> Txs]
      /\ req[r].kind \in {"paid", "failed"} /\ req[r].step = "picked" /\ Recorder(r)
      /\ events' = events \cup {WebhookEvent(r)}
      /\ Goto(r, "dispatch") \/ End(r)
    BY DEF TypeInv, TypeOK, SaveWebhook, Webhook, Recorder
<1>1. PICK ids \in SUBSET (Ids \cup {next}) :
        /\ \A i, j \in ids : i = j
        /\ \A i \in Ids : i \notin ids => txs'[i] = txs[i]
        /\ \A i \in Ids : i \in ids => txs'[i].status = req[r].kind /\ txs'[i].pid = req[r].input
    <2> DEFINE picked == IF req[r].pick = {} THEN {next} ELSE req[r].pick
    <2>1. txs' = [i \in Ids |->
                IF i \in picked
                THEN [txs[i] EXCEPT !.status = req[r].kind, !.pid = req[r].input]
                ELSE txs[i]]
        BY DEF SaveWebhook
    <2>2. picked \subseteq Ids \cup {next} /\ \A i, j \in picked : i = j
        BY <1>0 DEF BookInv, OnePick, Requested
    <2>3. \A i \in Ids : i \notin picked => txs'[i] = txs[i]
        BY <2>1
    <2>4. \A i \in Ids : i \in picked => txs'[i].status = req[r].kind /\ txs'[i].pid = req[r].input
        BY <1>0, <2>1 DEF Txs
    <2> QED BY <2>2, <2>3, <2>4
<1>2. /\ ~Recorder(r)' /\ \A q \in Requests \ {r} : req'[q] = req[q]
    BY <1>0, GoesOn DEF Steps
<1>3. CASE req[r].kind = "failed"
    <2>1. \A p : PaidEvent(p) \in events' => PaidEvent(p) \in events
        BY <1>0, <1>3 DEF WebhookEvent, PaidEvent
    <2> QED BY <1>0, <1>1, <1>2, <1>3, <2>1, BookQuiet
<1>4. CASE req[r].kind = "paid"
    <2>1. WebhookEvent(r) = PaidEvent(req[r].input)
        BY <1>4 DEF WebhookEvent, PaidEvent
    <2>2. PaidRecorded'
        BY <1>0, <1>1, <2>1 DEF BookInv, PaidRecorded
    <2>3. \A i \in Ids : txs[i].status = "paid" => txs[i].pid # req[r].input
        BY <1>0, <1>4 DEF BookInv, PaidRecorded, RecordersApart
    <2>4. BookedOnce'
        BY <1>1, <2>3 DEF BookInv, BookedOnce
    <2>5. \A p : PaidEvent(p) \in events' => PaidEvent(p) \in events \/ p = req[r].input
        BY <1>0, <2>1 DEF PaidEvent
    <2>6. RecordersApart'
        BY <1>0, <1>2, <1>4, <2>5 DEF BookInv, RecordersApart, Recorder
    <2>7. OnePick'
        BY <1>2 DEF BookInv, OnePick, Recorder
    <2> QED BY <2>2, <2>4, <2>6, <2>7 DEF BookInv
<1> QED BY <1>0, <1>3, <1>4

LEMMA BookNext == TypeInv /\ BookInv /\ [Next]_vars => BookInv'
<1> SUFFICES ASSUME TypeInv, BookInv, [Next]_vars PROVE BookInv'
    OBVIOUS
<1>0. req \in [Requests -> Requested] /\ txs \in [Ids -> Txs] /\ \A q \in Requests : Fits(req[q])
    BY DEF TypeInv, TypeOK
<1>1. CASE UNCHANGED vars
    BY <1>1, BookQuiet DEF vars
<1>2. ASSUME NEW r \in Requests, Receive(r) \/ AdminRead(r) \/ SplitRead(r) \/ EditRead(r) PROVE BookInv'
    <2>1. UNCHANGED <<txs, events>> /\ \A q \in Requests : Recorder(q)' => req'[q] = req[q]
        BY ZenonT(60), <1>0, <1>2
        DEF Receive, AdminRead, SplitRead, EditRead, Begin, Recorder, Blank
    <2> QED BY <2>1, BookQuiet
<1>3. ASSUME NEW r \in Requests, AdminSave(r) PROVE BookInv'
    <2>1. \A q \in Requests : Recorder(q)' => req'[q] = req[q]
        BY <1>3, GoesOn DEF AdminSave, Steps
    <2>2. /\ events' = events \/ events' = events \cup AdminEvent(req[r].was, req[r].input)
          /\ txs' = txs
        BY <1>3 DEF AdminSave
    <2>3. req[r].input \in Prepayments
        BY <1>0, <1>3 DEF AdminSave, Is, Fits
    <2>4. \A p : PaidEvent(p) \notin AdminEvent(req[r].was, req[r].input)
        BY <2>3 DEF PaidEvent, AdminEvent, AdminEventType, Prepayments
    <2> QED BY <2>1, <2>2, <2>4, BookQuiet
<1>4. ASSUME NEW r \in Requests, SplitReset(r) \/ EditUpdate(r) \/ EditCommit(r) PROVE BookInv'
    <2>1. \A q \in Requests : Recorder(q)' => req'[q] = req[q]
        <3>1. CASE End(r)
            BY <3>1, GoesOn
        <3>2. ASSUME NEW n, req' = [req EXCEPT ![r].step = "linking", ![r].slot = n]
              PROVE  \A q \in Requests : Recorder(q)' => req'[q] = req[q]
            <4>1. req'[r].step = "linking" /\ \A q \in Requests \ {r} : req'[q] = req[q]
                BY <1>0, <3>2 DEF Requested
            <4> QED BY <4>1 DEF Recorder
        <3> QED BY <1>4, <3>1, <3>2 DEF SplitReset, EditUpdate, EditCommit
    <2>2. /\ events' = events
          /\ \A i \in Ids : txs'[i].status = "paid" => txs'[i] = txs[i]
        BY <1>0, <1>4 DEF SplitReset, EditUpdate, EditCommit, NewTx
    <2> QED BY <2>1, <2>2, BookQuiet
<1>5. ASSUME NEW r \in Requests, Expire(r) PROVE BookInv'
    <2>1. \A q \in Requests : Recorder(q)' => req'[q] = req[q]
        BY ZenonT(60), <1>0, <1>5
        DEF Expire, ExpiryRead, ExpirySave, RemindRead, RemindSave, RemindFails, ExpiryEnds, Is,
            Goto, End, Recorder, Requested, Blank
    <2>2. /\ events' = events
          /\ \A i \in Ids : txs'[i].status = "paid" => txs'[i] = txs[i]
        <3>1. CASE txs' = txs
            BY <1>5, <3>1 DEF Expire, ExpiryRead, RemindRead, RemindFails, ExpiryEnds, ExpirySave, RemindSave
        <3>2. CASE ExpirySave(r)
            BY <1>0, <3>2 DEF ExpirySave, Txs
        <3>3. CASE RemindSave(r)
            BY <1>0, <3>3 DEF RemindSave, NewTx
        <3> QED BY <1>5, <3>1, <3>2, <3>3 DEF Expire, ExpiryRead, RemindRead, RemindFails, ExpiryEnds
    <2> QED BY <2>1, <2>2, BookQuiet
<1>6. ASSUME NEW r \in Requests, Notify(r) \/ Crash(r) PROVE BookInv'
    <2>1. UNCHANGED <<txs, events>> /\ \A q \in Requests : Recorder(q)' => req'[q] = req[q]
        BY <1>6, GoesOn DEF Notify, Dispatch, NotifyRead, NotifySave, NotifySend, Crash, Steps
    <2> QED BY <2>1, BookQuiet
<1>7. ASSUME NEW i \in Ids, Elapse(i) PROVE BookInv'
    <2>1. \A j \in Ids : txs'[j].status = txs[j].status /\ txs'[j].pid = txs[j].pid
        BY <1>0, <1>7 DEF Elapse, Txs
    <2> QED BY <1>7, <2>1, BookQuiet DEF Elapse
<1> QED BY <1>1, <1>2, <1>3, <1>4, <1>5, <1>6, <1>7, BookRecord, BookPick, BookSave
        DEF Next, HandleWebhook, HandleAdmin, HandleEdit

\* The unique key of the audit table makes every payment book one transaction:
\* its second webhook waits for the first or finds its event.
THEOREM PaymentsBookedOnce == Spec => []BookedOnce
<1>1. Spec => []TypeInv
    BY TypeInit, TypeNext, PTL DEF Spec
<1>2. Spec => []BookInv
    BY <1>1, BookInit, BookNext, PTL DEF Spec
<1>3. BookInv => BookedOnce
    BY DEF BookInv
<1> QED BY <1>2, <1>3, PTL

-----------------------------------------------------------------------------
(* The guest is told *)

\* The row that keeps the others from telling the guest has its sender.
RowHasSender ==
    notified > 0 => told \/ lost \/ failed \/ \E r \in Requests : req[r].step = "sending"

ToldInv == PaidIsTold /\ RowHasSender

\* Whoever was to tell the guest has done so, fails, dies, or finds the order
\* unpaid or the row of another.
LEMMA ToldNext == TypeInv /\ ToldInv /\ [Next]_vars => ToldInv'
<1> SUFFICES ASSUME TypeInv, ToldInv, [Next]_vars PROVE ToldInv'
    OBVIOUS
<1>0. /\ req \in [Requests -> Requested] /\ notified \in Nat
      /\ told \in BOOLEAN /\ failed \in BOOLEAN /\ lost \in BOOLEAN
      /\ \A q \in Requests : Fits(req[q])
    BY DEF TypeInv, TypeOK
\* A step of a request that does not owe the guest the message.
<1>1. ASSUME prepay' = "paid" => prepay = "paid", UNCHANGED <<guest, lost>>,
             \A q \in Requests : Telling(q) => req'[q] = req[q]
      PROVE  ToldInv'
    BY <1>1 DEF ToldInv, PaidIsTold, RowHasSender, Telling, guest
<1>2. CASE UNCHANGED vars
    BY <1>2 DEF vars, guest, ToldInv, PaidIsTold, RowHasSender, Telling
<1>3. ASSUME NEW r \in Requests, Receive(r) \/ AdminRead(r) \/ SplitRead(r) \/ EditRead(r) PROVE ToldInv'
    BY <1>0, <1>1, <1>3 DEF Receive, AdminRead, SplitRead, EditRead, Begin, Telling, order
<1>4. ASSUME NEW r \in Requests, Record(r) \/ PickTx(r) PROVE ToldInv'
    BY <1>0, <1>1, <1>4 DEF Record, PickTx, Goto, End, Telling, order
<1>5. ASSUME NEW r \in Requests, SaveWebhook(r) \/ AdminSave(r) PROVE ToldInv'
    <2>1. /\ UNCHANGED <<guest, lost>> /\ ~Telling(r)
          /\ Goto(r, "dispatch") \/ (End(r) /\ (prepay' = "paid" => prepay = "paid"))
        BY <1>0, <1>5 DEF SaveWebhook, AdminSave, AdminNotifies, Written, Is, Telling, guest
    <2>2. CASE Goto(r, "dispatch")
        <3>1. req'[r].step = "dispatch" /\ \A q \in Requests \ {r} : req'[q] = req[q]
            BY <1>0, <2>2 DEF Goto, Requested
        <3> QED BY <2>1, <3>1 DEF ToldInv, PaidIsTold, RowHasSender, Telling, guest
    <2>3. CASE End(r) /\ (prepay' = "paid" => prepay = "paid")
        BY <1>0, <1>1, <2>1, <2>3 DEF End
    <2> QED BY <2>1, <2>2, <2>3
<1>6. ASSUME NEW r \in Requests, SplitReset(r) \/ EditUpdate(r) \/ EditCommit(r) PROVE ToldInv'
    <2>1. /\ prepay' = "paid" => prepay = "paid"
          /\ UNCHANGED <<guest, lost>>
        BY <1>0, <1>6 DEF SplitReset, EditUpdate, EditCommit, Written, Fits, Is, order
    <2>2. \A q \in Requests : Telling(q) => req'[q] = req[q]
        BY <1>0, <1>6 DEF SplitReset, EditUpdate, EditCommit, End, Is, Telling
    <2> QED BY <1>1, <2>1, <2>2
<1>7. ASSUME NEW r \in Requests, Expire(r) PROVE ToldInv'
    <2>1. /\ prepay' = "paid" => prepay = "paid"
          /\ UNCHANGED <<guest, lost>>
        BY <1>0, <1>7 DEF Expire, ExpiryRead, ExpirySave, RemindRead, RemindSave, RemindFails, ExpiryEnds,
                          Written, order
    <2>2. \A q \in Requests : Telling(q) => req'[q] = req[q]
        BY <1>0, <1>7 DEF Expire, ExpiryRead, ExpirySave, RemindRead, RemindSave, RemindFails, ExpiryEnds,
                          Is, Goto, End, Telling
    <2> QED BY <1>1, <2>1, <2>2
<1>8. ASSUME NEW r \in Requests, Notify(r) PROVE ToldInv'
    <2>1. CASE Dispatch(r)
        <3>1. /\ req'[r].step = "notify" /\ \A q \in Requests \ {r} : req'[q] = req[q]
              /\ req[r].step = "dispatch" /\ UNCHANGED <<prepay, guest, lost>>
            BY <1>0, <2>1 DEF Dispatch, Goto, Requested, order
        <3> QED BY <3>1 DEF ToldInv, PaidIsTold, RowHasSender, Telling, guest
    <2>2. CASE NotifyRead(r)
        <3>1. /\ \A q \in Requests \ {r} : req'[q] = req[q]
              /\ req[r].step = "notify" /\ UNCHANGED <<prepay, guest, lost>>
              /\ req'[r].step = "telling" \/ prepay # "paid" \/ notified > 0
            BY <1>0, <2>2 DEF NotifyRead, Goto, End, Requested, order
        <3> QED BY <3>1 DEF ToldInv, PaidIsTold, RowHasSender, Telling, guest
    <2>3. CASE NotifySave(r)
        <3>1. req'[r].step = "sending"
            BY <1>0, <2>3 DEF NotifySave, Goto, Requested
        <3> QED BY <3>1 DEF ToldInv, PaidIsTold, RowHasSender, Telling
    <2>4. CASE NotifySend(r)
        BY <1>0, <2>4 DEF NotifySend, ToldInv, PaidIsTold, RowHasSender
    <2> QED BY <1>8, <2>1, <2>2, <2>3, <2>4 DEF Notify
<1>9. ASSUME NEW r \in Requests, Crash(r) PROVE ToldInv'
    <2>1. /\ \A q \in Requests \ {r} : req'[q] = req[q]
          /\ UNCHANGED <<prepay, guest>> /\ lost' = (lost \/ Telling(r))
        BY <1>0, <1>9 DEF Crash, End, order
    <2> QED BY <1>0, <2>1 DEF ToldInv, PaidIsTold, RowHasSender, Telling, guest
<1>10. ASSUME NEW i \in Ids, Elapse(i) PROVE ToldInv'
    BY <1>1, <1>10 DEF Elapse, order
<1> QED BY <1>2, <1>3, <1>4, <1>5, <1>6, <1>7, <1>8, <1>9, <1>10
        DEF Next, HandleWebhook, HandleAdmin, HandleEdit

\* The guest of a paid order hears of it, in whatever order webhooks, admins,
\* edits and reminders come, unless a process dies or the one send fails that
\* has the row which keeps the others from trying.
THEOREM PaidOrdersAreTold == Spec => []PaidIsTold
<1>1. Spec => []TypeInv
    BY TypeInit, TypeNext, PTL DEF Spec
<1>2. Init => ToldInv
    BY DEF Init, ToldInv, PaidIsTold, RowHasSender
<1>3. ToldInv => PaidIsTold
    BY DEF ToldInv
<1> QED BY <1>1, <1>2, <1>3, ToldNext, PTL DEF Spec
-----------------------------------------------------------------------------
(* A booking stays *)

\* The row lock of the order.
OneHolder == \A r, q \in Requests : HoldsOrder(r) /\ HoldsOrder(q) => r = q

\* What a request has picked exists; what a paid webhook has picked is not paid,
\* because only another paid webhook could have done that.
Picked ==
    \A r \in Requests : \A i \in req[r].pick :
        /\ txs[i].status # "none"
        /\ Is(r, "paid", "picked") => txs[i].status # "paid"

\* An id from the sequence belongs to one request, until the row is committed.
Reserved(r) == req[r].step = "linking" /\ req[r].slot # 0
Slots ==
    /\ \A i \in Ids : i >= next => txs[i].status = "none"
    /\ \A r \in Requests : Reserved(r) => req[r].slot < next /\ txs[req[r].slot].status = "none"
    /\ \A r, q \in Requests : Reserved(r) /\ Reserved(q) /\ req[r].slot = req[q].slot => r = q

RowInv == OneHolder /\ Picked /\ Slots

LEMMA RowInit == Init => RowInv
BY DEF Init, RowInv, OneHolder, HoldsOrder, Is, Picked, Slots, Reserved, Blank, NewTx, NoTx, Ids

\* A step that takes nothing: r gives up what it holds, or goes on holding it.
LEMMA RowQuiet ==
    ASSUME TypeInv, RowInv, NEW r \in Requests, next' = next,
           \A q \in Requests \ {r} : req'[q] = req[q],
           HoldsOrder(r)' => HoldsOrder(r), Is(r, "paid", "picked")' => Is(r, "paid", "picked"),
           Reserved(r)' => Reserved(r) /\ req'[r].slot = req[r].slot,
           req'[r].pick \subseteq req[r].pick,
           \A i \in Ids : /\ txs'[i].status = "none" <=> txs[i].status = "none"
                          /\ txs'[i].status = "paid" => txs[i].status = "paid"
    PROVE  RowInv'
<1>0. /\ req \in [Requests -> Requested] /\ \A q \in Requests : req[q].pick \subseteq Ids
      /\ \A q \in Requests : req[q].slot \in 0..MaxTx
    BY DEF TypeInv, TypeOK, Requested
<1>1. OneHolder'
    BY DEF RowInv, OneHolder, HoldsOrder, Is
<1>2. Picked'
    <2> SUFFICES ASSUME NEW q \in Requests, NEW i \in req'[q].pick
                 PROVE  /\ txs'[i].status # "none"
                        /\ Is(q, "paid", "picked")' => txs'[i].status # "paid"
        BY DEF Picked
    <2>1. i \in req[q].pick /\ i \in Ids /\ (Is(q, "paid", "picked")' => Is(q, "paid", "picked"))
        BY <1>0 DEF Is
    <2>2. txs[i].status # "none" /\ (Is(q, "paid", "picked") => txs[i].status # "paid")
        BY <2>1 DEF RowInv, Picked
    <2> QED BY <2>1, <2>2
<1>3. Slots'
    <2>1. \A q \in Requests : Reserved(q)' =>
            Reserved(q) /\ req'[q].slot = req[q].slot /\ req[q].slot \in Ids
        BY <1>0 DEF Reserved, Ids
    <2>2. ASSUME NEW i \in Ids, i >= next' PROVE txs'[i].status = "none"
        <3>1. i >= next /\ (i >= next => txs[i].status = "none")
            BY <2>2 DEF RowInv, Slots
        <3> QED BY <3>1
    <2>3. ASSUME NEW q \in Requests, Reserved(q)'
          PROVE  req'[q].slot < next' /\ txs'[req'[q].slot].status = "none"
        <3>1. req[q].slot < next /\ txs[req[q].slot].status = "none" /\ req[q].slot \in Ids
            BY <2>1, <2>3 DEF RowInv, Slots
        <3> QED BY <2>1, <2>3, <3>1
    <2>4. \A q, u \in Requests : Reserved(q)' /\ Reserved(u)' /\ req'[q].slot = req'[u].slot => q = u
        BY <2>1 DEF RowInv, Slots
    <2> QED BY <2>2, <2>3, <2>4 DEF Slots
<1> QED BY <1>1, <1>2, <1>3 DEF RowInv

LEMMA RowSave ==
    ASSUME TypeInv, RowInv, NEW r \in Requests, SaveWebhook(r)
    PROVE  RowInv'
<1>0. /\ req \in [Requests -> Requested] /\ txs \in [Ids -> Txs] /\ next \in Nat
      /\ req[r].kind \in {"paid", "failed"} /\ req[r].step = "picked"
      /\ Goto(r, "dispatch") \/ End(r)
      /\ \A q \in Requests : req[q].pick \subseteq Ids /\ req[q].slot \in 0..MaxTx
    <2>1. req \in [Requests -> Requested] /\ txs \in [Ids -> Txs] /\ next \in Nat
        BY DEF TypeInv, TypeOK
    <2>2. \A q \in Requests : req[q].pick \subseteq Ids /\ req[q].slot \in 0..MaxTx
        BY <2>1 DEF Requested
    <2>3. /\ req[r].kind \in {"paid", "failed"} /\ req[r].step = "picked"
          /\ Goto(r, "dispatch") \/ End(r)
        BY DEF SaveWebhook, Webhook
    <2> QED BY <2>1, <2>2, <2>3
<1>1. /\ \A q \in Requests \ {r} : req'[q] = req[q]
      /\ req'[r].step \in {"dispatch", "done"} /\ req'[r].pick \subseteq req[r].pick
    <2>1. CASE Goto(r, "dispatch")
        <3>1. req' = [req EXCEPT ![r] = [req[r] EXCEPT !.step = "dispatch"]]
            BY ONLY <2>1 DEF Goto
        <3>2. \A q \in Requests \ {r} : req'[q] = req[q]
            BY ONLY <1>0, <3>1
        <3>3. req'[r] = [req[r] EXCEPT !.step = "dispatch"] /\ req[r] \in Requested
            BY ONLY <1>0, <3>1, r \in Requests
        <3>4. req'[r].step = "dispatch" /\ req'[r].pick = req[r].pick
            BY ONLY <3>3 DEF Requested
        <3> QED BY ONLY <3>2, <3>4
    <2>2. CASE End(r)
        <3>1. req' = [req EXCEPT ![r] = [Blank EXCEPT !.kind = req[r].kind, !.step = "done"]]
            BY ONLY <2>2 DEF End
        <3>2. \A q \in Requests \ {r} : req'[q] = req[q]
            BY ONLY <1>0, <3>1
        <3>3. req'[r] = [Blank EXCEPT !.kind = req[r].kind, !.step = "done"]
            BY ONLY <1>0, <3>1, r \in Requests
        <3>4. req'[r].step = "done" /\ req'[r].pick = {}
            BY ONLY <3>3 DEF Blank
        <3> QED BY ONLY <3>2, <3>4
    <2> QED BY ONLY <1>0, <2>1, <2>2
<1>2. PICK ids \in SUBSET (Ids \cup {next}) :
        /\ \/ ids = {next} /\ next \in Ids /\ next' = next + 1
           \/ ids = req[r].pick /\ next' = next
        /\ \A i \in Ids : i \notin ids => txs'[i] = txs[i]
        /\ \A i \in Ids : i \in ids => txs'[i].status = req[r].kind
    <2> DEFINE picked == IF req[r].pick = {} THEN {next} ELSE req[r].pick
    <2>1. txs' = [i \in Ids |->
                IF i \in picked
                THEN [txs[i] EXCEPT !.status = req[r].kind, !.pid = req[r].input]
                ELSE txs[i]]
        BY DEF SaveWebhook
    <2>2. /\ picked \subseteq Ids \cup {next}
          /\ \/ picked = {next} /\ next \in Ids /\ next' = next + 1
             \/ picked = req[r].pick /\ next' = next
        BY <1>0 DEF SaveWebhook
    <2>3. \A i \in Ids : i \notin picked => txs'[i] = txs[i]
        BY <2>1
    <2>4. \A i \in Ids : i \in picked => txs'[i].status = req[r].kind
        BY <1>0, <2>1 DEF Txs
    <2> QED BY <2>2, <2>3, <2>4
<1>3. OneHolder'
    BY <1>1 DEF RowInv, OneHolder, HoldsOrder, Is
<1>4. \A q \in Requests : Reserved(q)' => Reserved(q) /\ q # r
    BY <1>1 DEF Reserved
<1>5. \A i \in ids : i < next => txs[i].status # "none"
    BY <1>0, <1>2 DEF RowInv, Picked
<1>6. next <= next' /\ \A i \in ids : i < next'
    BY <1>0, <1>2 DEF RowInv, Slots, Picked, Ids
<1>7. Picked'
    <2> SUFFICES ASSUME NEW q \in Requests, NEW i \in req'[q].pick
                 PROVE  /\ txs'[i].status # "none"
                        /\ Is(q, "paid", "picked")' => txs'[i].status # "paid"
        BY DEF Picked
    <2>1. i \in req[q].pick /\ i \in Ids /\ txs[i].status # "none"
        BY <1>0, <1>1 DEF RowInv, Picked
    <2>2. txs'[i].status # "none"
        BY <1>0, <1>2, <2>1
    <2>3. ASSUME Is(q, "paid", "picked")', txs'[i].status = "paid" PROVE FALSE
        <3>1. q # r /\ Is(q, "paid", "picked")
            BY <1>1, <2>3 DEF Is
        <3>2. req[r].kind = "failed"
            BY <1>0, <3>1 DEF RowInv, OneHolder, HoldsOrder, Is
        <3> QED BY <1>2, <2>1, <2>3, <3>1, <3>2 DEF RowInv, Picked
    <2> QED BY <2>2, <2>3
<1>8. Slots'
    <2>1. \A i \in Ids : i >= next' => txs'[i].status = "none"
        BY <1>0, <1>2, <1>6 DEF RowInv, Slots, Ids
    <2>2. ASSUME NEW q \in Requests, Reserved(q)'
          PROVE  req'[q].slot < next' /\ txs'[req'[q].slot].status = "none"
        <3>1. /\ req'[q] = req[q] /\ req[q].slot \in Ids /\ req[q].slot < next
              /\ txs[req[q].slot].status = "none"
            BY <1>0, <1>1, <1>4, <2>2 DEF RowInv, Slots, Reserved, Ids
        <3> QED BY <1>0, <1>2, <1>5, <1>6, <3>1 DEF Ids
    <2>3. \A q, u \in Requests : Reserved(q)' /\ Reserved(u)' /\ req'[q].slot = req'[u].slot => q = u
        BY <1>1, <1>4 DEF RowInv, Slots
    <2> QED BY <2>1, <2>2, <2>3 DEF Slots
<1> QED BY <1>3, <1>7, <1>8 DEF RowInv

\* A new id is reserved.
LEMMA RowReserve ==
    ASSUME TypeInv, RowInv, NEW r \in Requests, txs' = txs, next \in Ids, next' = next + 1,
           \A q \in Requests \ {r} : req'[q] = req[q],
           HoldsOrder(r)' => OrderFree, ~Is(r, "paid", "picked")',
           req'[r].slot = next, req'[r].pick \subseteq req[r].pick
    PROVE  RowInv'
<1>0. \A q \in Requests : req[q].pick \subseteq Ids /\ req[q].slot \in 0..MaxTx
    BY DEF TypeInv, TypeOK, Requested
<1>1. OneHolder'
    BY DEF RowInv, OneHolder, HoldsOrder, Is, OrderFree
<1>2. Picked'
    BY <1>0 DEF RowInv, Picked, Is
<1>3. Slots'
    <2>1. \A i \in Ids : i >= next' => txs'[i].status = "none"
        BY DEF RowInv, Slots, Ids
    <2>2. \A q \in Requests : Reserved(q)' /\ q # r => Reserved(q) /\ req'[q] = req[q] /\ req[q].slot < next
        BY DEF RowInv, Slots, Reserved
    <2>3. txs[next].status = "none"
        BY DEF RowInv, Slots, Ids
    <2>4. \A q \in Requests : Reserved(q)' => req'[q].slot < next' /\ txs'[req'[q].slot].status = "none"
        BY <1>0, <2>2, <2>3 DEF RowInv, Slots, Ids
    <2>5. \A q, u \in Requests : Reserved(q)' /\ Reserved(u)' /\ req'[q].slot = req'[u].slot => q = u
        BY <1>0, <2>2 DEF RowInv, Slots, Ids
    <2> QED BY <2>1, <2>4, <2>5 DEF Slots
<1> QED BY <1>1, <1>2, <1>3 DEF RowInv

\* The row that was reserved is committed.
LEMMA RowFill ==
    ASSUME TypeInv, RowInv, NEW r \in Requests, next' = next, req[r].step = "linking",
           \A q \in Requests \ {r} : req'[q] = req[q],
           req'[r].step \notin {"linking", "picked"}, req'[r].pick \subseteq req[r].pick,
           \A i \in Ids : IF i = req[r].slot THEN txs'[i].status \in {"pending", "failed"}
                         ELSE txs'[i] = txs[i]
    PROVE  RowInv'
<1>0. \A q \in Requests : req[q].pick \subseteq Ids /\ req[q].slot \in 0..MaxTx
    BY DEF TypeInv, TypeOK, Requested
<1>1. OneHolder'
    BY DEF RowInv, OneHolder, HoldsOrder, Is
<1>2. Picked'
    BY <1>0 DEF RowInv, Picked, Is
<1>3. req[r].slot \in Ids => Reserved(r)
    BY DEF Reserved, Ids
<1>4. \A q \in Requests : Reserved(q)' => Reserved(q) /\ q # r /\ req'[q] = req[q]
    BY DEF Reserved
<1>5. Slots'
    <2>1. \A i \in Ids : i >= next' => txs'[i].status = "none"
        BY <1>0, <1>3 DEF RowInv, Slots, Ids, TypeInv, TypeOK
    <2>2. \A q \in Requests : Reserved(q)' => req'[q].slot < next' /\ txs'[req'[q].slot].status = "none"
        BY <1>0, <1>3, <1>4 DEF RowInv, Slots, Ids, Reserved
    <2>3. \A q, u \in Requests : Reserved(q)' /\ Reserved(u)' /\ req'[q].slot = req'[u].slot => q = u
        BY <1>4 DEF RowInv, Slots
    <2> QED BY <2>1, <2>2, <2>3 DEF Slots
<1> QED BY <1>1, <1>2, <1>5 DEF RowInv

LEMMA RowNext == TypeInv /\ RowInv /\ [Next]_vars => RowInv'
<1> SUFFICES ASSUME TypeInv, RowInv, [Next]_vars PROVE RowInv'
    OBVIOUS
<1>0. req \in [Requests -> Requested] /\ txs \in [Ids -> Txs] /\ next \in 1..(MaxTx + 1)
      /\ \A q \in Requests : req[q].slot \in 0..MaxTx
    BY DEF TypeInv, TypeOK, Requested
<1>1. CASE UNCHANGED vars
    BY <1>1 DEF vars, RowInv, OneHolder, HoldsOrder, Is, Picked, Slots, Reserved
\* A request that moves on to a step where it has nothing.
<1>2. ASSUME NEW r \in Requests, UNCHANGED <<txs, next>>,
             End(r) \/ (\E s \in Steps \ {"picked", "linking"} : Goto(r, s))
                \/ (\E k \in Kinds, in \in Payments \cup Prepayments : Begin(r, k, in))
      PROVE  RowInv'
    <2>1. /\ \A q \in Requests \ {r} : req'[q] = req[q]
          /\ req'[r].step \notin {"picked", "linking"} /\ req'[r].pick \subseteq req[r].pick
        <3>1. CASE End(r)
            BY <1>0, <3>1 DEF End, Blank
        <3>2. ASSUME NEW s \in Steps \ {"picked", "linking"}, Goto(r, s)
              PROVE  /\ \A q \in Requests \ {r} : req'[q] = req[q]
                     /\ req'[r].step = s /\ req'[r].pick = req[r].pick
            BY <1>0, <3>2 DEF Goto, Requested
        <3>3. ASSUME NEW k \in Kinds, NEW in \in Payments \cup Prepayments, Begin(r, k, in)
              PROVE  /\ \A q \in Requests \ {r} : req'[q] = req[q]
                     /\ req'[r].step = "read" /\ req'[r].pick = {}
            BY <1>0, <3>3 DEF Begin, Blank
        <3> QED BY <1>2, <3>1, <3>2, <3>3
    <2> QED BY <1>2, <2>1, RowQuiet DEF HoldsOrder, Is, Reserved
<1>3. ASSUME NEW r \in Requests,
             \/ Receive(r) \/ AdminRead(r) \/ SplitRead(r) \/ EditRead(r)
             \/ Record(r) \/ AdminSave(r) \/ SplitReset(r)
             \/ RemindFails(r) \/ ExpiryEnds(r) \/ Notify(r) \/ Crash(r)
      PROVE  RowInv'
    <2>1. UNCHANGED <<txs, next>>
        BY <1>3 DEF Receive, AdminRead, SplitRead, EditRead, Begin, Record, AdminSave, SplitReset,
                    RemindFails, ExpiryEnds, Notify, Dispatch, NotifyRead, NotifySave, NotifySend, Crash
    <2>2. \/ End(r) \/ (\E s \in Steps \ {"picked", "linking"} : Goto(r, s))
          \/ (\E k \in Kinds, in \in Payments \cup Prepayments : Begin(r, k, in))
        BY <1>3 DEF Receive, AdminRead, SplitRead, EditRead, Record, AdminSave, SplitReset,
                    RemindFails, ExpiryEnds, Notify, Dispatch, NotifyRead, NotifySave, NotifySend, Crash,
                    Steps, Kinds, Prepayments
    <2> QED BY <1>2, <2>1, <2>2
<1>4. ASSUME NEW r \in Requests, PickTx(r) PROVE RowInv'
    <2>1. /\ UNCHANGED <<txs, next>> /\ \A q \in Requests \ {r} : req'[q] = req[q]
          /\ req'[r].kind = req[r].kind /\ req'[r].step = "picked" /\ req'[r].pick = Latest(Pending)
          /\ req[r].kind \in {"paid", "failed"} /\ (req[r].kind = "paid" => OrderFree)
        BY <1>0, <1>4 DEF PickTx, Requested, Webhook, MayPick
    <2>2. \A i \in Latest(Pending) : i \in Ids /\ txs[i].status = "pending"
        BY DEF Latest, Pending
    <2>3. OneHolder'
        BY <2>1 DEF RowInv, OneHolder, OrderFree, HoldsOrder, Is
    <2>4. Picked'
        BY <2>1, <2>2 DEF RowInv, Picked, Is
    <2>5. Slots'
        BY <2>1 DEF RowInv, Slots, Reserved
    <2> QED BY <2>3, <2>4, <2>5 DEF RowInv
<1>5. ASSUME NEW r \in Requests, EditUpdate(r) PROVE RowInv'
    <2>1. CASE End(r) /\ UNCHANGED next
        BY <1>2, <1>5, <2>1 DEF EditUpdate
    <2>2. ASSUME NEW link \in BOOLEAN, link => next \in Ids,
                 next' = IF link THEN next + 1 ELSE next,
                 req' = [req EXCEPT ![r].step = "linking", ![r].slot = IF link THEN next ELSE 0]
          PROVE  RowInv'
        <3>1. /\ \A q \in Requests \ {r} : req'[q] = req[q]
              /\ req'[r].kind = "edit" /\ req'[r].step = "linking" /\ req'[r].pick = req[r].pick
              /\ req'[r].slot = IF link THEN next ELSE 0
              /\ OrderFree /\ txs' = txs
            <4>1. /\ req[r].kind = "edit" /\ OrderFree /\ txs' = txs
                BY <1>5 DEF EditUpdate, Is
            <4>2. /\ \A q \in Requests \ {r} : req'[q] = req[q]
                  /\ req'[r].kind = req[r].kind /\ req'[r].step = "linking"
                  /\ req'[r].pick = req[r].pick /\ req'[r].slot = IF link THEN next ELSE 0
                BY <1>0, <2>2 DEF Requested
            <4> QED BY <4>1, <4>2
        <3>2. CASE link
            BY <2>2, <3>1, <3>2, RowReserve DEF Is
        <3>3. CASE ~link
            <4>1. next' = next /\ ~Reserved(r)'
                BY <2>2, <3>1, <3>3 DEF Reserved
            <4>2. OneHolder'
                BY <3>1 DEF OneHolder, OrderFree, HoldsOrder, Is
            <4>3. Picked'
                BY <3>1 DEF RowInv, Picked, Is
            <4>4. Slots'
                BY <3>1, <4>1 DEF RowInv, Slots, Reserved
            <4> QED BY <4>2, <4>3, <4>4 DEF RowInv
        <3> QED BY <3>2, <3>3
    <2> QED BY <1>5, <2>1, <2>2 DEF EditUpdate
<1>6. ASSUME NEW r \in Requests, EditCommit(r) \/ RemindSave(r) PROVE RowInv'
    <2>1. /\ \A i \in Ids : IF i = req[r].slot THEN txs'[i].status \in {"pending", "failed"}
                            ELSE txs'[i] = txs[i]
          /\ next' = next /\ req[r].step = "linking"
        BY <1>0, <1>6 DEF EditCommit, RemindSave, Is, NewTx
    <2>2. CASE End(r)
        BY <1>0, <2>1, <2>2, RowFill DEF End, Blank
    <2>3. CASE Goto(r, "expired")
        <3>1. /\ \A q \in Requests \ {r} : req'[q] = req[q]
              /\ req'[r].step = "expired" /\ req'[r].pick = req[r].pick
            BY <1>0, <2>3 DEF Goto, Requested
        <3> QED BY <2>1, <3>1, RowFill
    <2> QED BY <1>6, <2>2, <2>3 DEF EditCommit, RemindSave
<1>7. ASSUME NEW r \in Requests, ExpiryRead(r) PROVE RowInv'
    <2>1. /\ UNCHANGED <<txs, next>> /\ \A q \in Requests \ {r} : req'[q] = req[q]
          /\ req'[r].kind = "expiry" /\ req'[r].step = "picked"
          /\ req'[r].pick = {i \in Pending : txs[i].stale}
        BY <1>0, <1>7 DEF ExpiryRead, Blank
    <2>2. OneHolder' /\ Slots'
        BY <2>1 DEF RowInv, OneHolder, HoldsOrder, Is, Slots, Reserved
    <2>3. Picked'
        BY <2>1 DEF RowInv, Picked, Is, Pending
    <2> QED BY <2>2, <2>3 DEF RowInv
<1>8. ASSUME NEW r \in Requests, ExpirySave(r) PROVE RowInv'
    <2>1. /\ \A q \in Requests \ {r} : req'[q] = req[q]
          /\ req'[r].step = "expired" /\ req'[r].pick = req[r].pick /\ next' = next
        BY <1>0, <1>8 DEF ExpirySave, Goto, Requested
    <2>2. \A i \in Ids : /\ txs'[i].status = "none" <=> txs[i].status = "none"
                         /\ txs'[i].status = "paid" => txs[i].status = "paid"
        <3>1. \A i \in Ids : txs'[i] = txs[i] \/ (i \in req[r].pick /\ txs'[i].status = "expired")
            BY <1>0, <1>8 DEF ExpirySave, Txs
        <3> QED BY <3>1 DEF RowInv, Picked
    <2> QED BY <2>1, <2>2, RowQuiet DEF HoldsOrder, Is, Reserved
<1>9. ASSUME NEW r \in Requests, RemindRead(r) PROVE RowInv'
    <2>1. PICK i \in req[r].pick :
            \/ /\ next \in Ids /\ next' = next + 1
               /\ req' = [req EXCEPT ![r] =
                     [[req[r] EXCEPT !.pick = @ \ {i}] EXCEPT !.step = "linking", !.slot = next, !.was = prepay]]
            \/ req' = [req EXCEPT ![r] = [req[r] EXCEPT !.pick = @ \ {i}]] /\ UNCHANGED next
        BY <1>9 DEF RemindRead
    <2>2. txs' = txs /\ req[r].kind = "expiry" /\ req[r].step = "expired"
        BY <1>9 DEF RemindRead, Is
    <2>3. CASE /\ next \in Ids /\ next' = next + 1
               /\ req' = [req EXCEPT ![r] =
                     [[req[r] EXCEPT !.pick = @ \ {i}] EXCEPT !.step = "linking", !.slot = next, !.was = prepay]]
        <3>1. /\ \A q \in Requests \ {r} : req'[q] = req[q]
              /\ req'[r].kind = "expiry" /\ req'[r].step = "linking" /\ req'[r].slot = next
              /\ req'[r].pick = req[r].pick \ {i}
            BY <1>0, <2>2, <2>3 DEF Requested
        <3> QED BY <2>2, <2>3, <3>1, RowReserve DEF HoldsOrder, Is
    <2>4. CASE req' = [req EXCEPT ![r] = [req[r] EXCEPT !.pick = @ \ {i}]] /\ UNCHANGED next
        <3>1. /\ \A q \in Requests \ {r} : req'[q] = req[q]
              /\ req'[r].kind = "expiry" /\ req'[r].step = "expired" /\ req'[r].pick = req[r].pick \ {i}
            BY <1>0, <2>2, <2>4 DEF Requested
        <3> QED BY <2>2, <2>4, <3>1, RowQuiet DEF HoldsOrder, Is, Reserved
    <2> QED BY <2>1, <2>3, <2>4
<1>10. ASSUME NEW i \in Ids, Elapse(i) PROVE RowInv'
    <2>1. UNCHANGED <<req, next>> /\ \A j \in Ids : txs'[j].status = txs[j].status
        BY <1>0, <1>10 DEF Elapse, Txs
    <2>2. \A q \in Requests : req[q].pick \subseteq Ids
        BY <1>0 DEF Requested
    <2>3. Picked'
        BY <2>1, <2>2 DEF RowInv, Picked, Is
    <2>4. Slots'
        BY <1>0, <2>1 DEF RowInv, Slots, Reserved, Ids
    <2> QED BY <2>1, <2>3, <2>4 DEF RowInv, OneHolder, HoldsOrder, Is
<1> QED BY <1>1, <1>3, <1>4, <1>5, <1>6, <1>7, <1>8, <1>9, <1>10, RowSave
        DEF Next, HandleWebhook, HandleAdmin, HandleEdit, Expire

LEMMA StaysNext ==
    ASSUME TypeInv, RowInv, [Next]_vars, NEW i \in Ids, txs[i].status = "paid", txs'[i] # txs[i]
    PROVE  \E r \in Requests : Overtaking(r, i)
<1>0. /\ req \in [Requests -> Requested] /\ txs \in [Ids -> Txs] /\ next \in 1..(MaxTx + 1)
    BY DEF TypeInv, TypeOK
<1>1. ASSUME NEW r \in Requests, SaveWebhook(r) PROVE Overtaking(r, i)
    <2>1. i \in IF req[r].pick = {} THEN {next} ELSE req[r].pick
        BY <1>1 DEF SaveWebhook
    <2>2. i # next
        BY <1>0 DEF RowInv, Slots, Ids
    <2>3. i \in req[r].pick /\ ~Is(r, "paid", "picked")
        BY <2>1, <2>2 DEF RowInv, Picked
    <2> QED BY <1>1, <2>3 DEF SaveWebhook, Webhook, Is, Overtaking
<1>2. ASSUME NEW r \in Requests, EditCommit(r) \/ RemindSave(r) PROVE FALSE
    <2>1. req[r].step = "linking" /\ i = req[r].slot
        BY <1>0, <1>2 DEF EditCommit, RemindSave, Is
    <2> QED BY <2>1 DEF RowInv, Slots, Reserved, Ids
<1>3. ASSUME NEW r \in Requests, ExpirySave(r) PROVE Overtaking(r, i)
    BY <1>3 DEF ExpirySave, Is, Overtaking
<1>4. ASSUME NEW j \in Ids, Elapse(j) PROVE FALSE
    BY <1>0, <1>4 DEF Elapse
<1>5. CASE txs' = txs
    BY <1>5
<1> QED BY <1>1, <1>2, <1>3, <1>4, <1>5
        DEF Next, vars, HandleWebhook, HandleAdmin, HandleEdit, Expire, Notify, Receive, Record, PickTx,
            AdminRead, AdminSave, SplitRead, SplitReset, EditRead, EditUpdate, ExpiryRead, RemindRead,
            RemindFails, ExpiryEnds, Dispatch, NotifyRead, NotifySave, NotifySend, Crash, Begin

\* Two payments that come in at the same time take two transactions, and a
\* booking is lost only to the two writers that do not look again.
THEOREM BookingsStay == Spec => BookingStays
<1>1. Spec => []TypeInv
    BY TypeInit, TypeNext, PTL DEF Spec
<1>2. Spec => []RowInv
    BY <1>1, RowInit, RowNext, PTL DEF Spec
<1>3. TypeInv /\ RowInv /\ [Next]_vars =>
        [\A i \in Ids : txs[i].status = "paid" /\ txs'[i] # txs[i]
            => \E r \in Requests : Overtaking(r, i)]_vars
    BY StaysNext
<1> QED BY <1>1, <1>2, <1>3, PTL DEF Spec, BookingStays

\* Webhooks and reminders never write an order back to unpaid: the ORM leaves
\* out a column that has the value it was loaded with.
THEOREM PaidTakenBack == Spec => PaidTakenBackByHand
<1>1. Spec => []TypeInv
    BY TypeInit, TypeNext, PTL DEF Spec
<1>2. ASSUME TypeInv, [Next]_vars, prepay = "paid", prepay' # "paid"
      PROVE  \E r \in Requests : req[r].kind \in {"edit", "admin", "split_reset"}
                                 /\ req[r].step # "done" /\ req'[r].step = "done"
    <2>0. req \in [Requests -> Requested] /\ \A q \in Requests : Fits(req[q])
        BY <1>2 DEF TypeInv, TypeOK
    <2>1. ASSUME NEW r \in Requests, End(r) PROVE req'[r].step = "done"
        BY <2>0, <2>1 DEF End, Blank
    <2>2. ASSUME NEW r \in Requests, AdminSave(r)
          PROVE  req[r].kind = "admin" /\ req[r].step = "read" /\ End(r)
        BY <1>2, <2>2 DEF AdminSave, Is, Written, AdminNotifies
    <2>3. ASSUME NEW r \in Requests, SplitReset(r)
          PROVE  req[r].kind = "split_reset" /\ req[r].step = "read" /\ End(r)
        BY <2>3 DEF SplitReset, Is
    <2>4. ASSUME NEW r \in Requests, EditCommit(r)
          PROVE  req[r].kind = "edit" /\ req[r].step = "linking" /\ End(r)
        BY <2>4 DEF EditCommit, Is
    <2>5. ASSUME NEW r \in Requests, SaveWebhook(r) \/ RemindSave(r) PROVE FALSE
        BY <1>2, <2>0, <2>5 DEF SaveWebhook, RemindSave, Is, Fits, Written
    <2>6. prepay' # prepay
        BY <1>2
    <2> QED BY ZenonT(60), <1>2, <2>1, <2>2, <2>3, <2>4, <2>5, <2>6
        DEF Next, vars, order, guest, HandleWebhook, HandleAdmin, HandleEdit, Expire, Notify, Receive, Record,
            PickTx, AdminRead, SplitRead, EditRead, EditUpdate, ExpiryRead, ExpirySave, RemindRead,
            RemindFails, ExpiryEnds, Dispatch, NotifyRead, NotifySave, NotifySend, Crash, Begin, Elapse
<1>3. TypeInv /\ [Next]_vars =>
        [prepay = "paid" /\ prepay' # "paid"
        => \E r \in Requests : req[r].kind \in {"edit", "admin", "split_reset"}
                                 /\ req[r].step # "done" /\ req'[r].step = "done"]_vars
    BY <1>2
<1> QED BY <1>1, <1>3, PTL DEF Spec, PaidTakenBackByHand
=============================================================================
