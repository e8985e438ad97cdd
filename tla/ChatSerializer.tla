--------------------------- MODULE ChatSerializer ---------------------------
(***************************************************************************)
(* One guest's chat: the jobs that bring his messages, the table of        *)
(* message ids already taken (app/services/whatsapp_idempotency.py), the   *)
(* queue and the lease lock in Redis (app/services/chat_serializer.py) and *)
(* the retry loop around the pipeline (process_inbound_message in          *)
(* app/api/webhooks.py).                                                   *)
(*                                                                         *)
(* A job is one run of process_inbound_message for one delivery of one     *)
(* message.  It claims the message id in the database, appends the message *)
(* to the chat's queue, and if it gets the lock works through the queue,   *)
(* its own message or others'.  Every Redis call is a step of its own.     *)
(***************************************************************************)
EXTENDS Naturals, Sequences

CONSTANTS
    Jobs,         \* runs of process_inbound_message
    Messages,     \* WhatsApp message ids; a message may be delivered again
    None,         \* no message, and no owner of the lock
    MaxQueue,     \* MAX_QUEUE_LEN, 20
    MaxDrain,     \* MAX_DRAIN_PER_CYCLE, 20
    MaxRetries,   \* MAX_RETRIES, 3
    Faults        \* what may go wrong, see AllFaults

AllFaults == {"crash",   \* a worker dies, or a job is cancelled
              "lease",   \* more than LOCK_TTL_SEC pass without a renewal
              "ttl",     \* more than QUEUE_TTL_SEC pass without a push
              "redis",   \* a Redis call fails
              "db",      \* a statement on the table of message ids fails
              "late"}    \* a delivery more than 15 minutes after the first

ASSUME ChatAssumption ==
    /\ MaxQueue \in Nat \ {0}
    /\ MaxDrain \in Nat \ {0}
    /\ MaxRetries \in Nat \ {0}
    /\ None \notin Jobs \cup Messages
    /\ Faults \subseteq AllFaults

VARIABLES
    row,          \* whatsapp_inbound_dedupe.status of a message id
    old,          \* ids whose claimed_at is more than 15 minutes ago
    queue,        \* chat:queue
    lock,         \* chat:lock: the job whose token it holds
    pc,           \* where a job is
    hand,         \* the message a job carries: to push, or popped
    leaving,      \* the job has lost the lease and puts its message back
    tries,        \* failed attempts at the message in hand
    drained,      \* messages this job has processed
    lapsed,       \* history: the job has been without its lease
    lost,         \* history: messages dropped for a reason the code names
    unclaimed     \* history: messages let in when the claim itself failed

vars == <<row, old, queue, lock, pc, hand, leaving, tries, drained, lapsed, lost, unclaimed>>
redis == <<queue, lock>>
claims == <<row, old, unclaimed>>

-----------------------------------------------------------------------------

Enqueuing == {"check", "measure", "trim", "push"}
Processing == {"renew", "work", "mark_done", "mark_failed"}
Ended == {"idle", "ended", "crashed"}
Carrying == Enqueuing \cup Processing
Looping == Processing \cup {"drain", "release"}
Pcs == Carrying \cup Looping \cup {"acquire"} \cup Ended

\* The job is between acquire_chat_lock and the end of release_chat_lock.
InSection(j) ==
    \/ pc[j] \in Looping
    \/ pc[j] \in Enqueuing /\ leaving[j]

\* The job, and nothing else, has the message.
Carries(j, m) == hand[j] = m /\ pc[j] \in Carrying

Queued(m) == \E i \in DOMAIN queue : queue[i] = m

Drop(m) == lost' = lost \cup {m}

Goto(j, p) == pc' = [pc EXCEPT ![j] = p]

\* The job returns or dies; nothing of its local state is read again.
End(j, p) ==
    /\ Goto(j, p)
    /\ leaving' = [leaving EXCEPT ![j] = FALSE]
    /\ tries' = [tries EXCEPT ![j] = 0]
    /\ drained' = [drained EXCEPT ![j] = 0]
    /\ lapsed' = [lapsed EXCEPT ![j] = FALSE]

Init ==
    /\ row = [m \in Messages |-> "none"]
    /\ old = {}
    /\ queue = <<>>
    /\ lock = None
    /\ pc = [j \in Jobs |-> "idle"]
    /\ hand = [j \in Jobs |-> None]
    /\ leaving = [j \in Jobs |-> FALSE]
    /\ tries = [j \in Jobs |-> 0]
    /\ drained = [j \in Jobs |-> 0]
    /\ lapsed = [j \in Jobs |-> FALSE]
    /\ lost = {}
    /\ unclaimed = {}

-----------------------------------------------------------------------------
(* The claim on the message id. *)

\* Mutant of Claimable: the conflict on the id is not looked at.
ClaimableAlways(m) == TRUE

\* try_start_whatsapp_inbound_in_db: the INSERT succeeds, or the UPDATE finds
\* the row failed or, whatever its status, more than 15 minutes old.
Claimable(m) == row[m] \in {"none", "failed"} \/ m \in old

Start(j) ==
    /\ pc[j] = "idle"
    /\ \E m \in Messages :
        IF Claimable(m)
        THEN /\ row' = [row EXCEPT ![m] = "processing"]
             /\ old' = old \ {m}
             /\ lost' = lost \ {m}
             /\ hand' = [hand EXCEPT ![j] = m]
             /\ Goto(j, "check")
        ELSE /\ Goto(j, "ended")
             /\ UNCHANGED <<row, old, lost, hand>>
    /\ UNCHANGED <<redis, leaving, tries, drained, lapsed, unclaimed>>

\* The claim raises: the exception is logged and the job goes on without it.
StartUnchecked(j) ==
    /\ "db" \in Faults
    /\ pc[j] = "idle"
    /\ \E m \in Messages :
        /\ hand' = [hand EXCEPT ![j] = m]
        /\ unclaimed' = unclaimed \cup {m}
    /\ Goto(j, "check")
    /\ UNCHANGED <<row, old, redis, leaving, tries, drained, lapsed, lost>>

\* Fifteen minutes pass.  By then no job carries the message (ARQ ends a job
\* after five minutes) and the queue has been drained or has expired.
Age(m) ==
    /\ "late" \in Faults
    /\ row[m] # "none"
    /\ ~Queued(m) /\ \A j \in Jobs : ~Carries(j, m)
    /\ old' = old \cup {m}
    /\ UNCHANGED <<row, redis, pc, hand, leaving, tries, drained, lapsed, lost, unclaimed>>

-----------------------------------------------------------------------------
(* enqueue_pending: used for the job's own message, and to put a popped one *)
(* back when the lease is gone.                                             *)

\* The message is in the queue; what comes next.
Pushed(j) ==
    /\ hand' = [hand EXCEPT ![j] = None]
    /\ Goto(j, IF leaving[j] THEN "release" ELSE "acquire")

\* LRANGE: a message id that waits already is not queued again.
Check(j) ==
    /\ pc[j] = "check"
    /\ IF Queued(hand[j])
       THEN Pushed(j)
       ELSE Goto(j, "measure") /\ UNCHANGED hand
    /\ UNCHANGED <<claims, redis, leaving, tries, drained, lapsed, lost>>

\* LRANGE raises: taken for "not there".
CheckFails(j) ==
    /\ "redis" \in Faults
    /\ pc[j] = "check"
    /\ Goto(j, "measure")
    /\ UNCHANGED <<claims, redis, hand, leaving, tries, drained, lapsed, lost>>

\* LLEN
Measure(j) ==
    /\ pc[j] = "measure"
    /\ Goto(j, IF Len(queue) >= MaxQueue THEN "trim" ELSE "push")
    /\ UNCHANGED <<claims, redis, hand, leaving, tries, drained, lapsed, lost>>

\* LLEN raises: taken for an empty queue.
MeasureFails(j) ==
    /\ "redis" \in Faults
    /\ pc[j] = "measure"
    /\ Goto(j, "push")
    /\ UNCHANGED <<claims, redis, hand, leaving, tries, drained, lapsed, lost>>

\* The first message leaves the queue unprocessed.
DropHead == queue # <<>> /\ queue' = Tail(queue) /\ Drop(Head(queue))

\* LPOP: room is made at the expense of the oldest message.
Trim(j) ==
    /\ pc[j] = "trim"
    /\ IF queue = <<>> THEN UNCHANGED <<queue, lost>> ELSE DropHead
    /\ Goto(j, "measure")
    /\ UNCHANGED <<claims, lock, hand, leaving, tries, drained, lapsed>>

\* LPOP raises, before or after Redis has removed the element; the length is
\* asked again.
TrimFails(j) ==
    /\ "redis" \in Faults
    /\ pc[j] = "trim"
    /\ UNCHANGED <<queue, lost>> \/ DropHead
    /\ Goto(j, "measure")
    /\ UNCHANGED <<claims, lock, hand, leaving, tries, drained, lapsed>>

\* RPUSH
Push(j) ==
    /\ pc[j] = "push"
    /\ queue' = Append(queue, hand[j])
    /\ Pushed(j)
    /\ UNCHANGED <<claims, lock, leaving, tries, drained, lapsed, lost>>

\* RPUSH or the EXPIRE after it raises: enqueue_failed is logged, and the
\* message is gone or, if RPUSH was executed, in the queue all the same.
PushFails(j) ==
    /\ "redis" \in Faults
    /\ pc[j] = "push"
    /\ \/ Drop(hand[j]) /\ UNCHANGED queue
       \/ queue' = Append(queue, hand[j]) /\ UNCHANGED lost
    /\ Pushed(j)
    /\ UNCHANGED <<claims, lock, leaving, tries, drained, lapsed>>

-----------------------------------------------------------------------------
(* run_serialized_chat_pipeline. *)

\* SET NX EX: with the lock taken the job ends, "deferred".
Acquire(j) ==
    /\ pc[j] = "acquire"
    /\ IF lock = None
       THEN lock' = j /\ Goto(j, "drain") /\ UNCHANGED <<leaving, tries, drained, lapsed>>
       ELSE End(j, "ended") /\ UNCHANGED lock
    /\ UNCHANGED <<claims, queue, hand, lost>>

\* SET raises: acquire_chat_lock answers True, with the lock or without.
AcquireFails(j) ==
    /\ "redis" \in Faults
    /\ pc[j] = "acquire"
    /\ Goto(j, "drain")
    /\ \/ lock = None /\ lock' = j /\ UNCHANGED lapsed
       \/ lapsed' = [lapsed EXCEPT ![j] = TRUE] /\ UNCHANGED lock
    /\ UNCHANGED <<claims, queue, hand, leaving, tries, drained, lost>>

\* LPOP
Drain(j) ==
    /\ pc[j] = "drain"
    /\ IF queue = <<>>
       THEN Goto(j, "release") /\ UNCHANGED <<queue, hand>>
       ELSE /\ queue' = Tail(queue)
            /\ hand' = [hand EXCEPT ![j] = Head(queue)]
            /\ Goto(j, "renew")
    /\ UNCHANGED <<claims, lock, leaving, tries, drained, lapsed, lost>>

\* LPOP raises, before or after Redis has removed the element.
DrainFails(j) ==
    /\ "redis" \in Faults
    /\ pc[j] = "drain"
    /\ UNCHANGED <<queue, lost>> \/ DropHead
    /\ Goto(j, "release")
    /\ UNCHANGED <<claims, lock, hand, leaving, tries, drained, lapsed>>

\* Mutant of PutBack: the loop is left with the message.
PutBackForgets(j) ==
    /\ leaving' = [leaving EXCEPT ![j] = TRUE]
    /\ hand' = [hand EXCEPT ![j] = None]
    /\ Goto(j, "release")

\* The lease is gone: the message goes to the tail of the queue and the loop
\* is left.
PutBack(j) ==
    /\ leaving' = [leaving EXCEPT ![j] = TRUE]
    /\ Goto(j, "check")
    /\ UNCHANGED hand

\* renew_chat_lock: GET, and EXPIRE if the token is the job's.  EXPIRE only
\* moves the deadline, so that Lapse may follow at once.
Renew(j) ==
    /\ pc[j] = "renew"
    /\ IF lock = j
       THEN Goto(j, "work") /\ UNCHANGED <<hand, leaving>>
       ELSE PutBack(j)
    /\ UNCHANGED <<claims, redis, tries, drained, lapsed, lost>>

RenewFails(j) ==
    /\ "redis" \in Faults
    /\ pc[j] = "renew"
    /\ PutBack(j)
    /\ UNCHANGED <<claims, redis, tries, drained, lapsed, lost>>

\* Mutant of Released: DEL without comparing the token.
ReleasedAny(j) == None

\* The compare-and-delete script.
Released(j) == IF lock = j THEN None ELSE lock

Release(j) ==
    /\ pc[j] = "release"
    /\ lock' = Released(j)
    /\ End(j, "ended")
    /\ UNCHANGED <<claims, queue, hand, lost>>

\* The script raises and was executed or not; if not the lock stays until it
\* expires.
ReleaseFails(j) ==
    /\ "redis" \in Faults
    /\ pc[j] = "release"
    /\ UNCHANGED lock \/ lock' = Released(j)
    /\ End(j, "ended")
    /\ UNCHANGED <<claims, queue, hand, lost>>

-----------------------------------------------------------------------------
(* _process_payload_item: up to MAX_RETRIES attempts at process_message. *)

Succeed(j) ==
    /\ pc[j] = "work"
    /\ Goto(j, "mark_done")
    /\ UNCHANGED <<claims, redis, hand, leaving, tries, drained, lapsed, lost>>

Raise(j) ==
    /\ pc[j] = "work"
    /\ tries' = [tries EXCEPT ![j] = @ + 1]
    /\ Goto(j, IF tries[j] + 1 < MaxRetries THEN "work" ELSE "mark_failed")
    /\ UNCHANGED <<claims, redis, hand, leaving, drained, lapsed, lost>>

\* The bookkeeping of the drain loop after a message.
Processed(j) ==
    /\ hand' = [hand EXCEPT ![j] = None]
    /\ tries' = [tries EXCEPT ![j] = 0]
    /\ drained' = [drained EXCEPT ![j] = @ + 1]
    /\ Goto(j, IF drained[j] + 1 < MaxDrain THEN "drain" ELSE "release")

\* mark_whatsapp_inbound_done, or _failed after the FailedTask was saved: an
\* UPDATE by id, which finds no row for a message let in without a claim.
Mark(j) ==
    /\ pc[j] \in {"mark_done", "mark_failed"}
    /\ row' = [row EXCEPT ![hand[j]] =
                 IF @ = "none" THEN "none"
                 ELSE IF pc[j] = "mark_done" THEN "done" ELSE "failed"]
    /\ Processed(j)
    /\ UNCHANGED <<old, redis, leaving, lapsed, lost, unclaimed>>

\* The UPDATE raises: logged, the row stays in "processing".
MarkFails(j) ==
    /\ "db" \in Faults
    /\ pc[j] \in {"mark_done", "mark_failed"}
    /\ Drop(hand[j])
    /\ Processed(j)
    /\ UNCHANGED <<claims, redis, leaving, lapsed>>

-----------------------------------------------------------------------------
(* Time and death. *)

\* A worker dies: what its job carried dies with it, the lock does not.
\* (A cancelled job runs its "finally" and is a Crash followed by a Lapse.)
Crash(j) ==
    /\ "crash" \in Faults
    /\ pc[j] \notin Ended
    /\ lost' = lost \cup {m \in Messages : Carries(j, m)}
    /\ hand' = [hand EXCEPT ![j] = None]
    /\ End(j, "crashed")
    /\ UNCHANGED <<claims, redis>>

\* The lease runs out: LOCK_TTL_SEC are 15 seconds, and between two renewals
\* process_message calls a language model, iiko and WhatsApp.
Lapse ==
    /\ "lease" \in Faults
    /\ lock # None
    /\ lock' = None
    /\ lapsed' = [lapsed EXCEPT ![lock] = TRUE]
    /\ UNCHANGED <<claims, queue, pc, hand, leaving, tries, drained, lost>>

\* The key of the queue expires with everything in it.
Forget ==
    /\ "ttl" \in Faults
    /\ queue # <<>>
    /\ queue' = <<>>
    /\ lost' = lost \cup {m \in Messages : Queued(m)}
    /\ UNCHANGED <<claims, lock, pc, hand, leaving, tries, drained, lapsed>>

Enqueue(j) == Check(j) \/ Measure(j) \/ Trim(j) \/ Push(j)
Loop(j) == Acquire(j) \/ Drain(j) \/ Renew(j) \/ Release(j)
Process(j) == Succeed(j) \/ Raise(j) \/ Mark(j)
Fail(j) ==
    CheckFails(j) \/ MeasureFails(j) \/ TrimFails(j) \/ PushFails(j) \/ AcquireFails(j)
        \/ DrainFails(j) \/ RenewFails(j) \/ ReleaseFails(j) \/ MarkFails(j)
        \/ StartUnchecked(j) \/ Crash(j)

Next ==
    \/ \E j \in Jobs : Start(j) \/ Enqueue(j) \/ Loop(j) \/ Process(j) \/ Fail(j)
    \/ \E m \in Messages : Age(m)
    \/ Lapse
    \/ Forget

\* A worker runs its jobs; the pipeline has timeouts on everything it awaits.
Fairness == \A j \in Jobs : WF_vars(Enqueue(j) \/ Loop(j) \/ Process(j))

Spec == Init /\ [][Next]_vars /\ Fairness
-----------------------------------------------------------------------------
(* Properties. *)

\* Types of the tables, the keys in Redis and the jobs.
TypeOK ==
    /\ row \in [Messages -> {"none", "processing", "done", "failed"}]
    /\ old \subseteq Messages
    /\ queue \in Seq(Messages)
    /\ lock \in Jobs \cup {None}
    /\ pc \in [Jobs -> Pcs]
    /\ hand \in [Jobs -> Messages \cup {None}]
    /\ leaving \in [Jobs -> BOOLEAN]
    /\ tries \in [Jobs -> 0..MaxRetries]
    /\ drained \in [Jobs -> 0..MaxDrain]
    /\ lapsed \in [Jobs -> BOOLEAN]
    /\ lost \subseteq Messages
    /\ unclaimed \subseteq Messages

\* Until its own lease runs out a job in the drain loop has the lock: a job
\* that overstayed its lease cannot free the lock of its successor.  So two
\* drain loops run at once only if the lease of one of them has run out.
HolderHasLock == \A j \in Jobs : InSection(j) /\ ~lapsed[j] => lock = j

\* A message taken from WhatsApp and not yet answered waits in the queue or
\* is carried by a job, through every lost lease and put back, unless it was
\* dropped for a reason that is known: the worker died with it, the queue
\* overflowed or expired, Redis or the database failed.
NothingLostSilently ==
    \A m \in Messages :
        row[m] = "processing" => Queued(m) \/ m \in lost \/ \E j \in Jobs : Carries(j, m)

\* However often WhatsApp delivers a message there is one copy of it, in the
\* queue or in the hand of one job, so that no two jobs answer it at once.
OneCopy ==
    \A m \in Messages \ unclaimed :
        /\ \A j, k \in Jobs : Carries(j, m) /\ Carries(k, m) => j = k
        /\ \A i, k \in DOMAIN queue : queue[i] = m /\ queue[k] = m => i = k
        /\ ~(Queued(m) /\ \E j \in Jobs : Carries(j, m))

-----------------------------------------------------------------------------
(* MessageCustody, the abstract specification, of the messages whose claim    *)
(* did not fail.                                                              *)

\* A message of which a row says that somebody has it, and nobody has it and
\* its loss has no name, has vanished.
PlaceOf(m) ==
    IF m \in unclaimed THEN "unchecked"
    ELSE IF Queued(m) THEN "waiting"
    ELSE IF \E j \in Jobs : Carries(j, m) THEN "held"
    ELSE IF row[m] # "processing" THEN "settled"
    ELSE IF m \in lost THEN "lost" ELSE "vanished"

HandOf(j) == IF pc[j] \in Carrying /\ hand[j] \notin unclaimed THEN hand[j] ELSE None

Place == [m \in Messages |-> PlaceOf(m)]

InHand == [j \in Jobs |-> HandOf(j)]

Inside == {j \in Jobs : InSection(j)}

Overdue == {j \in Inside : lapsed[j]}

Custody == INSTANCE MessageCustody
    WITH place <- Place, held <- InHand, inside <- Inside, late <- Overdue

\* Whatever the commands to Redis and the database do between each other, the
\* jobs keep the custody of the messages that MessageCustody promises.
KeepsCustody == Custody!Spec

-----------------------------------------------------------------------------
(* What the documentation says and the code does not do. *)

\* "Drain FIFO until empty" (run_serialized_chat_pipeline) speaks of an end: no
\* job hangs in the trimming of the queue or in the drain loop.  It does when
\* Redis answers LLEN and refuses LPOP, over and over.
JobsEnd == \A j \in Jobs : pc[j] # "idle" ~> pc[j] \in Ended

\* chat_serializer.py: "Per-chat single-flight": no two messages of one chat
\* are processed at the same time.
SingleFlight ==
    \A j, k \in Jobs : pc[j] = "work" /\ pc[k] = "work" => j = k

\* run_serialized_chat_pipeline: "Enqueue, acquire lease lock, drain FIFO until
\* empty": when every job has ended nothing waits in the queue.
DrainedUntilEmpty == (\A j \in Jobs : pc[j] \in Ended) => queue = <<>>
=============================================================================
