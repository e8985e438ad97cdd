--------------------------- MODULE MessageCustody ---------------------------
(***************************************************************************)
(* What the chat serializer promises about the messages of one guest,      *)
(* without leases, retries and calls to Redis: a message that is let in is *)
(* always somewhere - it waits, or one job has it, or it is settled, or    *)
(* its loss has a name - and only a job inside the section takes messages  *)
(* up, which it enters only while everybody inside has overstayed.         *)
(***************************************************************************)
CONSTANTS
    Jobs,       \* whoever may have a message
    Messages,
    None        \* no message

VARIABLES
    place,      \* where a message is: "waiting", "held", "settled" (not let in,
                \* answered or given up), "lost" for a reason that has a name, or
                \* "unchecked", of which nothing is promised
    held,       \* the message a job has
    inside,     \* jobs in the section
    late        \* those of them who have overstayed

custodyVars == <<place, held, inside, late>>

section == <<inside, late>>

Init ==
    /\ place = [m \in Messages |-> "settled"]
    /\ held = [j \in Jobs |-> None]
    /\ inside = {} /\ late = {}

Put(m, p) == place' = [place EXCEPT ![m] = p]

Has(j, m) == held' = [held EXCEPT ![j] = m]

\* A delivery is let in, of a message that is nowhere.
LetIn(j) ==
    /\ held[j] = None /\ j \notin inside
    /\ \E m \in Messages :
        /\ place[m] \in {"settled", "lost"}
        /\ Has(j, m)
        /\ Put(m, "held")
    /\ UNCHANGED section

\* The check is out of order: from now on nothing is known of the message.
LetInUnchecked ==
    /\ \E m \in Messages :
        /\ place[m] # "unchecked"
        /\ Put(m, "unchecked")
        /\ held' = [j \in Jobs |-> IF held[j] = m THEN None ELSE held[j]]
    /\ UNCHANGED section

\* A job gives away what it has: it queues its own message, or one that it
\* has taken up too late; it has settled a message, or lost it.
GiveAway(j) ==
    /\ held[j] # None
    /\ Has(j, None)
    /\ \/ Put(held[j], "waiting") \/ Put(held[j], "lost")
       \/ j \in inside /\ Put(held[j], "settled")
    /\ UNCHANGED section

TakeUp(j) ==
    /\ held[j] = None /\ j \in inside
    /\ \E m \in Messages :
        /\ place[m] = "waiting"
        /\ Has(j, m)
        /\ Put(m, "held")
    /\ UNCHANGED section

\* Messages are lost while they wait.
Spill ==
    /\ \E S \in SUBSET {m \in Messages : place[m] = "waiting"} :
        place' = [m \in Messages |-> IF m \in S THEN "lost" ELSE place[m]]
    /\ UNCHANGED <<held, section>>

Enter(j) ==
    /\ j \notin inside
    /\ inside' = inside \cup {j}
    /\ late' = late \cup {j} \/ (inside \subseteq late /\ UNCHANGED late)
    /\ UNCHANGED <<place, held>>

Overstay(j) ==
    /\ j \in inside \ late
    /\ late' = late \cup {j}
    /\ UNCHANGED <<place, held, inside>>

Leaves(j) == inside' = inside \ {j} /\ late' = late \ {j}

\* Nobody leaves with a message in his hand.
Leave(j) ==
    /\ held[j] = None /\ j \in inside
    /\ Leaves(j)
    /\ UNCHANGED <<place, held>>

\* A job dies, and what it had is lost.
Die(j) ==
    /\ held[j] # None
    /\ Has(j, None)
    /\ Put(held[j], "lost")
    /\ Leaves(j)

\* Most steps of a job move no message: it asks, waits, tries again.
Elsewhere == UNCHANGED custodyVars

Next ==
    \/ Elsewhere
    \/ \E j \in Jobs :
        \/ LetIn(j) \/ GiveAway(j) \/ TakeUp(j) \/ Enter(j) \/ Overstay(j) \/ Leave(j) \/ Die(j)
    \/ LetInUnchecked
    \/ Spill

Spec == Init /\ [][Next]_custodyVars
=============================================================================
