---------------------------- MODULE KitchenTicket ----------------------------
(***************************************************************************)
(* What the restaurant may rely on when an order is sent to the kitchen,   *)
(* without rows, snapshots and sessions: a send first claims an order that *)
(* is open, asks the kitchen at most once, and then gives up its claim.    *)
(* The order is shown as with the kitchen only once a ticket exists, and   *)
(* only a claim shows it as being sent.  Meanwhile guest and staff change  *)
(* the order as they like.                                                 *)
(***************************************************************************)
CONSTANT Senders  \* whoever may send the order, each once

VARIABLES
    shown,        \* what the order tells staff and guest
    sends,        \* how far each send is
    tickets       \* the sends whose ticket the kitchen has

kitchenVars == <<shown, sends, tickets>>

\* What a change that does not claim may leave on the order.
Honest == {"open", "cancelled"} \cup (IF tickets # {} THEN {"sent"} ELSE {})

Init ==
    /\ shown = "open"
    /\ sends = [s \in Senders |-> "waiting"]
    /\ tickets = {}

Claim(s) ==
    /\ shown = "open" /\ sends[s] = "waiting"
    /\ shown' = "sending"
    /\ sends' = [sends EXCEPT ![s] = "claimed"]
    /\ UNCHANGED tickets

\* The kitchen is asked; it may refuse, and its answer may be lost.
Ask(s) ==
    /\ sends[s] = "claimed"
    /\ sends' = [sends EXCEPT ![s] = "asked"]
    /\ tickets' \in {tickets, tickets \cup {s}}
    /\ UNCHANGED shown

\* The claim is given up, and the order shows the outcome or what it showed.
Settle(s) ==
    /\ sends[s] = "asked"
    /\ sends' = [sends EXCEPT ![s] = "over"]
    /\ shown' \in {shown} \cup (IF shown = "gone" THEN {} ELSE Honest)
    /\ UNCHANGED tickets

\* The send ends without a word: its process dies, or it never claimed.
Abandon(s) ==
    /\ sends[s] # "over"
    /\ sends' = [sends EXCEPT ![s] = "over"]
    /\ UNCHANGED <<shown, tickets>>

\* Somebody else changes the order.
Change ==
    /\ shown # "gone"
    /\ shown' \in {"gone"} \cup Honest
    /\ UNCHANGED <<sends, tickets>>

Next ==
    \/ \E s \in Senders : Claim(s) \/ Ask(s) \/ Settle(s) \/ Abandon(s)
    \/ Change

Spec == Init /\ [][Next]_kitchenVars
=============================================================================
